---- MODULE Spec2Model ----
(***************************************************************************)
(* Host-side runtime of the TOS VM: the compute meter and return-data slot *)
(* of InvokeContext (program-runtime), the guest-memory translator, the    *)
(* syscall handlers (syscalls) and TosContext (tbpf).                      *)
(*                                                                         *)
(* Machine words.  TLC's integers are 32-bit, so the u64 of the source is  *)
(* modelled by the range 0..U64_MAX with U64_MAX = 2^31 - 1, and isize by  *)
(* its lower half.  Saturating operations saturate at U64_MAX and at 0     *)
(* exactly as saturating_add / saturating_mul / saturating_sub do.  Every  *)
(* limit and every price of the source is far below 2^31 and is kept as    *)
(* written in the source.                                                  *)
(***************************************************************************)
EXTENDS Integers, Sequences, FiniteSets, TLC

U64_MAX == (1073741823 * 2) + 1
ISIZE_MAX == (U64_MAX - 1) \div 2

Min(a, b) == IF a <= b THEN a ELSE b

saturating_sub(a, b) == IF b >= a THEN 0 ELSE a - b
saturating_add(a, b) == IF a > U64_MAX - b THEN U64_MAX ELSE a + b
saturating_mul(a, b) ==
    IF a = 0 \/ b = 0 THEN 0
    ELSE IF a > U64_MAX \div b THEN U64_MAX ELSE a * b

(***************************************************************************)
(* Bytes, 32-byte identifiers.                                             *)
(***************************************************************************)
Fill(b, n) == [i \in 1..n |-> b]
Hash(b) == Fill(b, 32)
Take(s, n) == SubSeq(s, 1, n)

(***************************************************************************)
(* Limits and prices of the source.                                        *)
(***************************************************************************)
MAX_LOG_LENGTH == 10000
LOG_COST_PER_BYTE == 1
LOG_BASE_COST == 100
BLOCKCHAIN_QUERY_COST == 50
BALANCE_QUERY_COST == 100
TRANSFER_COST == 500
MAX_KEY_SIZE == 256
MAX_VALUE_SIZE == 65536
STORAGE_WRITE_BASE_COST == 500
STORAGE_DELETE_COST == 300
\* A variant of the read price: the delete price taken for it.
STORAGE_READ_BASE_COST_is_delete_cost == STORAGE_DELETE_COST
STORAGE_READ_BASE_COST == 200
STORAGE_READ_BYTE_COST == 1
\* A variant of the write price per byte: the read price per byte taken for it.
STORAGE_WRITE_BYTE_COST_is_read_byte_cost == STORAGE_READ_BYTE_COST
STORAGE_WRITE_BYTE_COST == 2
MAX_RETURN_DATA == 1024
CTX_MAX_RETURN_DATA == 1024
RETURN_DATA_SET_BASE_COST == 100
RETURN_DATA_GET_COST == 50
RETURN_DATA_SET_BYTE_COST == 1

(***************************************************************************)
(* The guest address space.  MemoryMapping belongs to the external engine: *)
(* it is a list of regions, each a host buffer claiming a guest range with *)
(* Load or Load+Store permission.  Two regions are mapped here: a writable *)
(* input region whose bytes are the state variable mem, and a read-only    *)
(* data region of constant bytes (long messages and payloads).  A region's  *)
(* host address is wherever the host's byte buffer lies: the read-only     *)
(* region's is congruent to its guest address modulo every alignment, the  *)
(* input region's is one byte off.                                         *)
(***************************************************************************)
INPUT_VADDR == 4096
INPUT_HOST == 4097
RODATA_VADDR == 65536
RODATA_HOST == 65536
UNMAPPED_VADDR == 16
InputLen == 40
RodataLen == 65537

RodataBytes == Fill(97, RodataLen)

\* The input region as the host builds it: "hi", an invalid UTF-8 byte, the
\* value 1 2 3, two spare bytes, then the 32-byte address 7 7 ... 7.
InitialInput == <<104, 105, 255, 1, 2, 3, 0, 0>> \o Fill(7, InputLen - 8)

Regions == {
    [name |-> "input", vm_addr |-> INPUT_VADDR, host_addr |-> INPUT_HOST,
     len |-> InputLen, writable |-> TRUE],
    [name |-> "rodata", vm_addr |-> RODATA_VADDR, host_addr |-> RODATA_HOST,
     len |-> RodataLen, writable |-> FALSE] }

InRegion(r, vm_addr, len) ==
    /\ vm_addr >= r.vm_addr
    /\ vm_addr - r.vm_addr <= r.len
    /\ len <= r.len - (vm_addr - r.vm_addr)

\* MemoryMapping.map(access_type, vm_addr, len): the host address of the range,
\* or the mapping's fault.
map(access_type, vm_addr, len) ==
    LET hit == {r \in Regions : /\ InRegion(r, vm_addr, len)
                                /\ (access_type = "Store" => r.writable)}
    IN IF hit = {}
       THEN [ok |-> FALSE, err |-> "AccessViolation", host_addr |-> 0]
       ELSE LET r == CHOOSE x \in hit : TRUE
            IN [ok |-> TRUE, err |-> "",
                host_addr |-> r.host_addr + (vm_addr - r.vm_addr)]

\* The bytes a host slice (host_addr, len) denotes, given the input region's
\* current contents m.
HostBytes(m, host_addr, len) ==
    IF len = 0 THEN <<>>
    ELSE IF host_addr >= RODATA_HOST
         THEN SubSeq(RodataBytes, host_addr - RODATA_HOST + 1,
                     host_addr - RODATA_HOST + len)
         ELSE SubSeq(m, host_addr - INPUT_HOST + 1, host_addr - INPUT_HOST + len)

\* copy_from_slice through a mutable host slice into the input region.
HostStore(m, host_addr, bytes) ==
    [i \in 1..Len(m) |->
        IF i > host_addr - INPUT_HOST /\ i <= host_addr - INPUT_HOST + Len(bytes)
        THEN bytes[i - (host_addr - INPUT_HOST)]
        ELSE m[i]]

address_is_aligned(align, address) == address % align = 0

\* translate_type_inner!: size and alignment of T, access type.  The mapping
\* is asked first; alignment is then decided on the host address it returned.
translate_type_inner(access_type, vm_addr, size, align, check_aligned) ==
    LET q == map(access_type, vm_addr, size)
        ev == <<[ev |-> "map", access |-> access_type,
                 vm_addr |-> vm_addr, len |-> size]>>
    IN IF ~q.ok
       THEN [ok |-> FALSE, err |-> q.err, host_addr |-> 0, len |-> 0, maps |-> ev]
       ELSE IF ~check_aligned
       THEN [ok |-> TRUE, err |-> "", host_addr |-> q.host_addr, len |-> 1,
             maps |-> ev]
       ELSE IF ~address_is_aligned(align, q.host_addr)
       THEN [ok |-> FALSE, err |-> "UnalignedPointer", host_addr |-> 0,
             len |-> 0, maps |-> ev]
       ELSE [ok |-> TRUE, err |-> "", host_addr |-> q.host_addr, len |-> 1,
             maps |-> ev]

translate_type(vm_addr, size, align, check_aligned) ==
    translate_type_inner("Load", vm_addr, size, align, check_aligned)

translate_type_mut(vm_addr, size, align, check_aligned) ==
    translate_type_inner("Store", vm_addr, size, align, check_aligned)

\* A variant of translate_slice_inner! without the shortcut for len = 0.
translate_slice_inner_no_shortcut(access_type, vm_addr, len, size, align, check_aligned) ==
    LET total_size == saturating_mul(len, size) IN
    IF total_size > ISIZE_MAX
    THEN [ok |-> FALSE, err |-> "InvalidLength", host_addr |-> 0,
          len |-> 0, maps |-> <<>>]
    ELSE LET q == map(access_type, vm_addr, total_size)
             ev == <<[ev |-> "map", access |-> access_type,
                      vm_addr |-> vm_addr, len |-> total_size]>>
         IN IF ~q.ok
            THEN [ok |-> FALSE, err |-> q.err, host_addr |-> 0,
                  len |-> 0, maps |-> ev]
            ELSE IF check_aligned /\ ~address_is_aligned(align, q.host_addr)
            THEN [ok |-> FALSE, err |-> "UnalignedPointer", host_addr |-> 0,
                  len |-> 0, maps |-> ev]
            ELSE [ok |-> TRUE, err |-> "", host_addr |-> q.host_addr,
                  len |-> len, maps |-> ev]

\* translate_slice_inner!: len, element size and alignment of T, access type.
\* The result carries the map queries made (maps) for the handlers' traces.
\* A variant of translate_slice_inner! whose total size is computed with
\* wrapping instead of saturating multiplication (the sizes of the element
\* types, 1, 4 and 8, divide 2^64).
translate_slice_inner_wrapping_mul(access_type, vm_addr, len, size, align, check_aligned) ==
    IF len = 0
    THEN [ok |-> TRUE, err |-> "", host_addr |-> 0, len |-> 0, maps |-> <<>>]
    ELSE LET total_size == IF size = 1 THEN len
                           ELSE (len % ((U64_MAX \div size) + 1)) * size IN
         IF total_size > ISIZE_MAX
         THEN [ok |-> FALSE, err |-> "InvalidLength", host_addr |-> 0,
               len |-> 0, maps |-> <<>>]
         ELSE LET q == map(access_type, vm_addr, total_size)
                  ev == <<[ev |-> "map", access |-> access_type,
                           vm_addr |-> vm_addr, len |-> total_size]>>
              IN IF ~q.ok
                 THEN [ok |-> FALSE, err |-> q.err, host_addr |-> 0,
                       len |-> 0, maps |-> ev]
                 ELSE IF check_aligned /\ ~address_is_aligned(align, q.host_addr)
                 THEN [ok |-> FALSE, err |-> "UnalignedPointer", host_addr |-> 0,
                       len |-> 0, maps |-> ev]
                 ELSE [ok |-> TRUE, err |-> "", host_addr |-> q.host_addr,
                       len |-> len, maps |-> ev]

translate_slice_inner(access_type, vm_addr, len, size, align, check_aligned) ==
    IF len = 0
    THEN [ok |-> TRUE, err |-> "", host_addr |-> 0, len |-> 0, maps |-> <<>>]
    ELSE LET total_size == saturating_mul(len, size) IN
         IF total_size > ISIZE_MAX
         THEN [ok |-> FALSE, err |-> "InvalidLength", host_addr |-> 0,
               len |-> 0, maps |-> <<>>]
         ELSE LET q == map(access_type, vm_addr, total_size)
                  ev == <<[ev |-> "map", access |-> access_type,
                           vm_addr |-> vm_addr, len |-> total_size]>>
              IN IF ~q.ok
                 THEN [ok |-> FALSE, err |-> q.err, host_addr |-> 0,
                       len |-> 0, maps |-> ev]
                 ELSE IF check_aligned /\ ~address_is_aligned(align, q.host_addr)
                 THEN [ok |-> FALSE, err |-> "UnalignedPointer", host_addr |-> 0,
                       len |-> 0, maps |-> ev]
                 ELSE [ok |-> TRUE, err |-> "", host_addr |-> q.host_addr,
                       len |-> len, maps |-> ev]

translate_slice(vm_addr, len, size, align, check_aligned) ==
    translate_slice_inner("Load", vm_addr, len, size, align, check_aligned)

translate_slice_mut(vm_addr, len, size, align, check_aligned) ==
    translate_slice_inner("Store", vm_addr, len, size, align, check_aligned)

(***************************************************************************)
(* InvokeContext (program-runtime/src/invoke_context.rs).                  *)
(***************************************************************************)
VARIABLES
    compute_budget,   \* InvokeContext.compute_budget
    compute_meter,    \* InvokeContext.compute_meter (remaining units)
    contract_hash,    \* InvokeContext.contract_hash
    block_hash,       \* InvokeContext.block_hash
    block_height,     \* InvokeContext.block_height
    tx_hash,          \* InvokeContext.tx_hash
    tx_sender,        \* InvokeContext.tx_sender
    debug_mode,       \* InvokeContext.debug_mode
    return_data,      \* InvokeContext.return_data
    storage,          \* the StorageProvider behind InvokeContext.storage
    accounts,         \* the AccountProvider behind InvokeContext.accounts
    mem,              \* the bytes of the writable input region
    log_output,       \* the lines log::info! has emitted
    tos_context,      \* a TosContext (tbpf/src/context.rs)
    last,             \* the call just made: operation, arguments, result, trace, state before
    written,          \* history: key -> value of this contract's last successful
                      \* tos_storage_write of the key, until a tos_storage_delete of it
    slot_calls,       \* history: the calls a host made on the return-data slot
                      \* (kept by the actions of SpecReturnData)
    twin,             \* the same calls made on a second context that differs only
                      \* in debug_mode (kept by the actions of SpecDebugPair)
    vm,               \* the TosVm the host holds, if any, and where it is in
                      \* its life; its context is tos_context
    ncalls            \* calls made so far

ctx_fields == <<compute_budget, contract_hash, block_hash, block_height, tx_hash, tx_sender>>
vars == <<compute_budget, compute_meter, contract_hash, block_hash, block_height,
          tx_hash, tx_sender, debug_mode, return_data, storage, accounts, mem,
          log_output, tos_context, last, written, slot_calls, twin, vm, ncalls>>

NoReturnData == [some |-> FALSE, program_id |-> <<>>, data |-> <<>>]
SomeReturnData(program_id, data) ==
    [some |-> TRUE, program_id |-> program_id, data |-> data]

\* InvokeContext::get_compute_units_consumed
get_compute_units_consumed(budget, meter) == saturating_sub(budget, meter)

\* Variants of consume_checked: the comparison off by one; the subtraction
\* made without the comparison (it wraps around in u64).
consume_checked_off_by_one(meter, amount) ==
    IF meter <= amount
    THEN [ok |-> FALSE, err |-> "ExceededMaxInstructions", meter |-> meter]
    ELSE [ok |-> TRUE, err |-> "", meter |-> meter - amount]

consume_checked_unguarded(meter, amount) ==
    [ok |-> TRUE, err |-> "",
     meter |-> IF amount > meter THEN (U64_MAX - (amount - meter)) + 1
               ELSE meter - amount]

\* InvokeContext::consume_checked
consume_checked(meter, amount) ==
    IF meter < amount
    THEN [ok |-> FALSE, err |-> "ExceededMaxInstructions", meter |-> meter]
    ELSE [ok |-> TRUE, err |-> "", meter |-> meter - amount]

\* Variants of consume: a wrapping subtraction; an addition.
consume_wrapping(meter, amount) ==
    IF amount > meter THEN (U64_MAX - (amount - meter)) + 1 ELSE meter - amount

consume_adds(meter, amount) == saturating_add(meter, amount)

\* ContextObject::consume for InvokeContext
consume(meter, amount) == saturating_sub(meter, amount)

\* ContextObject::get_remaining for InvokeContext
get_remaining(meter) == meter

\* A variant of consume that gives units back instead of taking them.
tos_consume_adds(c, amount) ==
    [c EXCEPT !.remaining_compute_units =
        saturating_add(c.remaining_compute_units, amount)]

\* ContextObject::consume for TosContext
tos_consume(c, amount) ==
    [c EXCEPT !.remaining_compute_units =
        saturating_sub(c.remaining_compute_units, amount)]

\* TosContext::compute_units_consumed
tos_compute_units_consumed(c) ==
    saturating_sub(c.compute_budget, c.remaining_compute_units)

\* TosContext::new
TosContextNew(budget) ==
    [remaining_compute_units |-> budget, compute_budget |-> budget,
     debug_mode |-> FALSE]

\* TosVm::MAX_COMPUTE_BUDGET
MAX_COMPUTE_BUDGET == 1400000

\* An Err of TosVm::new: no VM, no context.
VmFailure(err, steps) ==
    [ok |-> FALSE, err |-> err, context |-> TosContextNew(0), steps |-> steps]

\* A variant of TosVm::new whose budget check refuses the maximum itself.
TosVm_new_refuses_maximum(elf_bytes, budget) ==
    IF budget >= MAX_COMPUTE_BUDGET
    THEN VmFailure("ExecutionError", <<>>)
    ELSE IF elf_bytes = "malformed"
    THEN VmFailure("ElfLoadError", <<"register_syscalls", "from_elf">>)
    ELSE IF elf_bytes = "unverifiable"
    THEN VmFailure("VerificationFailed", <<"register_syscalls", "from_elf", "verify">>)
    ELSE [ok |-> TRUE, err |-> "", context |-> TosContextNew(budget),
          steps |-> <<"register_syscalls", "from_elf", "verify", "TosContext::new">>]

\* A variant of TosVm::new that does not verify what it loaded.
TosVm_new_unverified(elf_bytes, budget) ==
    IF budget > MAX_COMPUTE_BUDGET
    THEN VmFailure("ExecutionError", <<>>)
    ELSE IF elf_bytes = "malformed"
    THEN VmFailure("ElfLoadError", <<"register_syscalls", "from_elf">>)
    ELSE [ok |-> TRUE, err |-> "", context |-> TosContextNew(budget),
          steps |-> <<"register_syscalls", "from_elf", "TosContext::new">>]

\* TosVm::new: the budget check, the loader with its syscalls, loading,
\* verification, the context.  steps are the stages it went through.
\* elf_bytes is what Executable::from_elf and RequisiteVerifier::verify, both
\* outside this repository, make of the bytes: "valid" loads and verifies,
\* "unverifiable" loads and fails verification, "malformed" does not load.
TosVm_new(elf_bytes, budget) ==
    IF budget > MAX_COMPUTE_BUDGET
    THEN VmFailure("ExecutionError", <<>>)
    ELSE IF elf_bytes = "malformed"
    THEN VmFailure("ElfLoadError", <<"register_syscalls", "from_elf">>)
    ELSE IF elf_bytes = "unverifiable"
    THEN VmFailure("VerificationFailed", <<"register_syscalls", "from_elf", "verify">>)
    ELSE [ok |-> TRUE, err |-> "", context |-> TosContextNew(budget),
          steps |-> <<"register_syscalls", "from_elf", "verify", "TosContext::new">>]

\* The host holds no TosVm.
NoVm == [state |-> "Unloaded", elf_bytes |-> "", steps |-> <<>>, runs |-> 0]

\* A variant of TosVm::execute that hands the program's result to the host
\* whatever it is.
TosVm_execute_any_result(engine) ==
    IF engine.fault
    THEN [ok |-> FALSE, val |-> 0, err |-> "ExecutionError", state |-> "Trapped"]
    ELSE [ok |-> TRUE, val |-> engine.result, err |-> "", state |-> "Completed"]

\* What TosVm::execute returns for what EbpfVm::execute_program returned:
\* engine.fault for its Err, engine.result for the value of its Ok.
TosVm_execute(engine) ==
    IF engine.fault
    THEN [ok |-> FALSE, val |-> 0, err |-> "ExecutionError", state |-> "Trapped"]
    ELSE IF engine.result /= 0
    THEN [ok |-> FALSE, val |-> engine.result, err |-> "ProgramError",
          state |-> "ProgramError"]
    ELSE [ok |-> TRUE, val |-> engine.result, err |-> "", state |-> "Completed"]

\* A variant of set_return_data: the size comparison off by one.
set_return_data_off_by_one(slot, program_id, data) ==
    IF Len(data) >= CTX_MAX_RETURN_DATA
    THEN [ok |-> FALSE, err |-> "ReturnDataTooLarge", return_data |-> slot]
    ELSE [ok |-> TRUE, err |-> "",
          return_data |-> SomeReturnData(program_id, data)]

\* A variant of set_return_data without the size limit.
set_return_data_unchecked(slot, program_id, data) ==
    [ok |-> TRUE, err |-> "", return_data |-> SomeReturnData(program_id, data)]

\* A variant of set_return_data that keeps an entry already stored.
set_return_data_keep_first(slot, program_id, data) ==
    IF Len(data) > CTX_MAX_RETURN_DATA
    THEN [ok |-> FALSE, err |-> "ReturnDataTooLarge", return_data |-> slot]
    ELSE [ok |-> TRUE, err |-> "",
          return_data |-> IF slot.some THEN slot
                          ELSE SomeReturnData(program_id, data)]

\* InvokeContext::set_return_data
set_return_data(slot, program_id, data) ==
    IF Len(data) > CTX_MAX_RETURN_DATA
    THEN [ok |-> FALSE, err |-> "ReturnDataTooLarge", return_data |-> slot]
    ELSE [ok |-> TRUE, err |-> "",
          return_data |-> SomeReturnData(program_id, data)]

\* InvokeContext::get_return_data
get_return_data(slot) == slot

\* InvokeContext::clear_return_data
clear_return_data(slot) == NoReturnData

(***************************************************************************)
(* The ports.  StorageProvider and AccountProvider are traits the host     *)
(* implements; the reference implementations here are an in-memory map     *)
(* keyed by (contract_hash, key) and a ledger of balances.                 *)
(***************************************************************************)
StorageProvider_get(st, hash, key) ==
    [some |-> <<hash, key>> \in DOMAIN st,
     data |-> IF <<hash, key>> \in DOMAIN st THEN st[<<hash, key>>] ELSE <<>>,
     call |-> <<[ev |-> "storage", op |-> "get", contract |-> hash, key |-> key]>>]

StorageProvider_set(st, hash, key, value) ==
    [ok |-> TRUE, err |-> "",
     storage |-> [p \in (DOMAIN st) \cup {<<hash, key>>} |->
                    IF p = <<hash, key>> THEN value ELSE st[p]],
     call |-> <<[ev |-> "storage", op |-> "set", contract |-> hash, key |-> key,
                 value |-> value]>>]

StorageProvider_delete(st, hash, key) ==
    [existed |-> <<hash, key>> \in DOMAIN st,
     storage |-> [p \in (DOMAIN st) \ {<<hash, key>>} |-> st[p]],
     call |-> <<[ev |-> "storage", op |-> "delete", contract |-> hash, key |-> key]>>]

AccountProvider_get_balance(ac, address) ==
    IF address \in DOMAIN ac THEN ac[address] ELSE 0

AccountProvider_transfer(ac, from, to, amount) ==
    LET call == <<[ev |-> "account", op |-> "transfer", from |-> from, to |-> to,
                   amount |-> amount]>>
    IN IF AccountProvider_get_balance(ac, from) < amount
       THEN [ok |-> FALSE, err |-> "InsufficientBalance", accounts |-> ac,
             call |-> call]
       ELSE IF from /= to /\ AccountProvider_get_balance(ac, to) > U64_MAX - amount
       THEN [ok |-> FALSE, err |-> "BalanceOverflow", accounts |-> ac, call |-> call]
       ELSE [ok |-> TRUE, err |-> "", call |-> call,
             accounts |->
               [a \in (DOMAIN ac) \cup {from, to} |->
                   IF from = to THEN AccountProvider_get_balance(ac, a)
                   ELSE IF a = from THEN AccountProvider_get_balance(ac, a) - amount
                   ELSE IF a = to THEN AccountProvider_get_balance(ac, a) + amount
                   ELSE ac[a]]]

\* InvokeContext::get_storage / set_storage / delete_storage / get_balance /
\* transfer: pass-through to the ports with the context's own contract_hash.
\* A variant of get_storage: the wrong 32-byte field of the context passed
\* as the scope.
get_storage_by_sender(st, key) == StorageProvider_get(st, tx_sender, key)
get_storage(st, key) == StorageProvider_get(st, contract_hash, key)
\* A variant of set_storage: key and value, both byte slices, passed in each
\* other's place.
set_storage_swapped(st, key, value) ==
    StorageProvider_set(st, contract_hash, value, key)
set_storage(st, key, value) == StorageProvider_set(st, contract_hash, key, value)
delete_storage(st, key) == StorageProvider_delete(st, contract_hash, key)
get_balance(ac, address) == AccountProvider_get_balance(ac, address)
\* A variant of transfer whose source is the transaction's sender.
transfer_from_sender(ac, recipient, amount) ==
    AccountProvider_transfer(ac, tx_sender, recipient, amount)
\* InvokeContext::transfer
transfer(ac, recipient, amount) ==
    AccountProvider_transfer(ac, contract_hash, recipient, amount)

(***************************************************************************)
(* std::str::from_utf8: the bytes are well-formed UTF-8.  Every byte is    *)
(* either the head of a sequence whose continuation bytes follow it, or a  *)
(* continuation byte of the sequence headed within the three bytes before. *)
(* An ASCII byte is a sequence by itself, so only the bytes from 128 up    *)
(* need looking at.                                                        *)
(***************************************************************************)
IsCont(x) == x >= 128 /\ x <= 191

Utf8Width(x) ==
    IF x < 128 THEN 1
    ELSE IF x >= 194 /\ x <= 223 THEN 2
    ELSE IF x >= 224 /\ x <= 239 THEN 3
    ELSE IF x >= 240 /\ x <= 244 THEN 4
    ELSE 0

Utf8SecondOk(x, y) ==
    IF x = 224 THEN y >= 160 /\ y <= 191
    ELSE IF x = 237 THEN y >= 128 /\ y <= 159
    ELSE IF x = 240 THEN y >= 144 /\ y <= 191
    ELSE IF x = 244 THEN y >= 128 /\ y <= 143
    ELSE IsCont(y)

from_utf8_ok(b) ==
    \A i \in {n \in 1..Len(b) : b[n] >= 128} :
        IF IsCont(b[i])
        THEN \E j \in 1..(i - 1) :
                /\ i - j <= 3
                /\ Utf8Width(b[j]) >= i - j + 1
                /\ \A k \in (j + 1)..(i - 1) : IsCont(b[k])
        ELSE /\ Utf8Width(b[i]) >= 1
             /\ i + Utf8Width(b[i]) - 1 <= Len(b)
             /\ \A k \in (i + 1)..(i + Utf8Width(b[i]) - 1) : IsCont(b[k])
             /\ (Utf8Width(b[i]) >= 2 => Utf8SecondOk(b[i], b[i + 1]))

\* translate_string: translate_slice::<u8> unaligned, then from_utf8, whose
\* error is replaced by MemoryTranslationError::InvalidLength.  m is the
\* input region's contents.
translate_string(m, vm_addr, len) ==
    LET b == translate_slice(vm_addr, len, 1, 1, FALSE)
    IN IF ~b.ok
       THEN [ok |-> FALSE, err |-> b.err, bytes |-> <<>>, maps |-> b.maps]
       ELSE LET bytes == HostBytes(m, b.host_addr, len)
            IN IF from_utf8_ok(bytes)
               THEN [ok |-> TRUE, err |-> "", bytes |-> bytes, maps |-> b.maps]
               ELSE [ok |-> FALSE, err |-> "InvalidLength", bytes |-> <<>>,
                     maps |-> b.maps]

(***************************************************************************)
(* Syscall handlers.  A handler takes the mutable part s of the world      *)
(* (meter, input region, ports, return-data slot, log) and its argument    *)
(* registers, and yields the world after it, its result and the trace of   *)
(* what it did, in order: charges, MemoryMapping.map queries, port calls,  *)
(* guest-memory writes and log lines.                                      *)
(***************************************************************************)
Ok(s, v, tr) == [s |-> s, ok |-> TRUE, val |-> v, err |-> "", trace |-> tr]
Err(s, e, tr) == [s |-> s, ok |-> FALSE, val |-> 0, err |-> e, trace |-> tr]

EvCharge(amount, c) == <<[ev |-> "charge", amount |-> amount, ok |-> c.ok]>>
EvWrite(vm_addr, bytes) == <<[ev |-> "write", vm_addr |-> vm_addr, bytes |-> bytes]>>
EvBalance(address) == <<[ev |-> "account", op |-> "get_balance", address |-> address]>>
EvLog(line) == <<[ev |-> "log", line |-> line]>>

\* The line log::info! formats in TosLog.
LogLine(msg) == [contract |-> Take(contract_hash, 4), msg |-> msg]

\* A variant of TosLog that charges before it validates the length.
TosLog_charge_first(s, msg_ptr, msg_len) ==
    LET total_cost == saturating_add(LOG_BASE_COST,
                                     saturating_mul(msg_len, LOG_COST_PER_BYTE))
        c == consume_checked(s.meter, total_cost)
        t1 == EvCharge(total_cost, c)
    IN IF ~c.ok THEN Err(s, c.err, t1)
    ELSE
    LET s1 == [s EXCEPT !.meter = c.meter]
    IN IF msg_len > MAX_LOG_LENGTH THEN Err(s1, "MessageTooLong", t1)
    ELSE
    LET m == translate_slice(msg_ptr, msg_len, 1, 1, FALSE)
        t2 == t1 \o m.maps
    IN IF ~m.ok THEN Err(s1, m.err, t2)
    ELSE
    LET msg == HostBytes(s1.mem, m.host_addr, msg_len)
    IN IF ~from_utf8_ok(msg) THEN Err(s1, "InvalidString", t2)
       ELSE IF debug_mode
       THEN Ok([s1 EXCEPT !.log = Append(@, LogLine(msg))], 0,
               t2 \o EvLog(LogLine(msg)))
       ELSE Ok(s1, 0, t2)

\* syscalls/src/logging.rs: TosLog
\* A variant of TosLog that discards the message of a context without
\* debug_mode before charging for it.
TosLogWith_discard_before_charging(debug, s, msg_ptr, msg_len) ==
    IF msg_len > MAX_LOG_LENGTH THEN Err(s, "MessageTooLong", <<>>)
    ELSE
    IF ~debug THEN Ok(s, 0, <<>>)
    ELSE
    LET total_cost == saturating_add(LOG_BASE_COST,
                                     saturating_mul(msg_len, LOG_COST_PER_BYTE))
        c == consume_checked(s.meter, total_cost)
        t1 == EvCharge(total_cost, c)
    IN IF ~c.ok THEN Err(s, c.err, t1)
    ELSE
    LET s1 == [s EXCEPT !.meter = c.meter]
        m == translate_slice(msg_ptr, msg_len, 1, 1, FALSE)
        t2 == t1 \o m.maps
    IN IF ~m.ok THEN Err(s1, m.err, t2)
    ELSE
    LET msg == HostBytes(s1.mem, m.host_addr, msg_len)
    IN IF ~from_utf8_ok(msg) THEN Err(s1, "InvalidString", t2)
       ELSE IF debug
       THEN Ok([s1 EXCEPT !.log = Append(@, LogLine(msg))], 0,
               t2 \o EvLog(LogLine(msg)))
       ELSE Ok(s1, 0, t2)

\* A variant of TosLog that gives the charge back when the message cannot be
\* read or is not UTF-8.
TosLogWith_refunds_failure(debug, s, msg_ptr, msg_len) ==
    IF msg_len > MAX_LOG_LENGTH THEN Err(s, "MessageTooLong", <<>>)
    ELSE
    LET total_cost == saturating_add(LOG_BASE_COST,
                                     saturating_mul(msg_len, LOG_COST_PER_BYTE))
        c == consume_checked(s.meter, total_cost)
        t1 == EvCharge(total_cost, c)
    IN IF ~c.ok THEN Err(s, c.err, t1)
    ELSE
    LET s1 == [s EXCEPT !.meter = c.meter]
        m == translate_slice(msg_ptr, msg_len, 1, 1, FALSE)
        t2 == t1 \o m.maps
    IN IF ~m.ok THEN Err(s, m.err, t2)
    ELSE
    LET msg == HostBytes(s1.mem, m.host_addr, msg_len)
    IN IF ~from_utf8_ok(msg) THEN Err(s, "InvalidString", t2)
       ELSE IF debug
       THEN Ok([s1 EXCEPT !.log = Append(@, LogLine(msg))], 0,
               t2 \o EvLog(LogLine(msg)))
       ELSE Ok(s1, 0, t2)

\* TosLog, on a context whose debug_mode is debug
TosLogWith(debug, s, msg_ptr, msg_len) ==
    IF msg_len > MAX_LOG_LENGTH THEN Err(s, "MessageTooLong", <<>>)
    ELSE
    LET total_cost == saturating_add(LOG_BASE_COST,
                                     saturating_mul(msg_len, LOG_COST_PER_BYTE))
        c == consume_checked(s.meter, total_cost)
        t1 == EvCharge(total_cost, c)
    IN IF ~c.ok THEN Err(s, c.err, t1)
    ELSE
    LET s1 == [s EXCEPT !.meter = c.meter]
        m == translate_slice(msg_ptr, msg_len, 1, 1, FALSE)
        t2 == t1 \o m.maps
    IN IF ~m.ok THEN Err(s1, m.err, t2)
    ELSE
    LET msg == HostBytes(s1.mem, m.host_addr, msg_len)
    IN IF ~from_utf8_ok(msg) THEN Err(s1, "InvalidString", t2)
       ELSE IF debug
       THEN Ok([s1 EXCEPT !.log = Append(@, LogLine(msg))], 0,
               t2 \o EvLog(LogLine(msg)))
       ELSE Ok(s1, 0, t2)

\* TosLog on a context whose debug_mode is the current one
TosLog(s, msg_ptr, msg_len) == TosLogWith(debug_mode, s, msg_ptr, msg_len)

\* syscalls/src/blockchain.rs: the body shared by TosGetBlockHash,
\* TosGetTxHash, TosGetTxSender and TosGetContractHash, for the field each copies.
GetHashField(s, output_ptr, field) ==
    LET c == consume_checked(s.meter, BLOCKCHAIN_QUERY_COST)
        t1 == EvCharge(BLOCKCHAIN_QUERY_COST, c)
    IN IF ~c.ok THEN Err(s, c.err, t1)
    ELSE
    LET s1 == [s EXCEPT !.meter = c.meter]
        o == translate_slice_mut(output_ptr, 32, 1, 1, FALSE)
        t2 == t1 \o o.maps
    IN IF ~o.ok THEN Err(s1, o.err, t2)
       ELSE Ok([s1 EXCEPT !.mem = HostStore(@, o.host_addr, field)], 0,
               t2 \o EvWrite(output_ptr, field))

TosGetBlockHash(s, output_ptr) == GetHashField(s, output_ptr, block_hash)
TosGetTxHash(s, output_ptr) == GetHashField(s, output_ptr, tx_hash)
\* A variant of TosGetTxSender that copies the transaction hash.
TosGetTxSender_copies_tx_hash(s, output_ptr) == GetHashField(s, output_ptr, tx_hash)
TosGetTxSender(s, output_ptr) == GetHashField(s, output_ptr, tx_sender)
TosGetContractHash(s, output_ptr) == GetHashField(s, output_ptr, contract_hash)

\* syscalls/src/blockchain.rs: TosGetBlockHeight
TosGetBlockHeight_free(s) == Ok(s, block_height, <<>>)

TosGetBlockHeight(s) ==
    LET c == consume_checked(s.meter, BLOCKCHAIN_QUERY_COST)
        t1 == EvCharge(BLOCKCHAIN_QUERY_COST, c)
    IN IF ~c.ok THEN Err(s, c.err, t1)
       ELSE Ok([s EXCEPT !.meter = c.meter], block_height, t1)

\* syscalls/src/balance.rs: TosGetBalance
TosGetBalance(s, address_ptr) ==
    LET c == consume_checked(s.meter, BALANCE_QUERY_COST)
        t1 == EvCharge(BALANCE_QUERY_COST, c)
    IN IF ~c.ok THEN Err(s, c.err, t1)
    ELSE
    LET s1 == [s EXCEPT !.meter = c.meter]
        a == translate_slice(address_ptr, 32, 1, 1, FALSE)
        t2 == t1 \o a.maps
    IN IF ~a.ok THEN Err(s1, a.err, t2)
    ELSE
    LET address == HostBytes(s1.mem, a.host_addr, 32)
    IN Ok(s1, get_balance(s1.accounts, address),
          t2 \o EvBalance(address))

\* syscalls/src/balance.rs: TosTransfer
TosTransfer(s, recipient_ptr, amount) ==
    LET c == consume_checked(s.meter, TRANSFER_COST)
        t1 == EvCharge(TRANSFER_COST, c)
    IN IF ~c.ok THEN Err(s, c.err, t1)
    ELSE
    LET s1 == [s EXCEPT !.meter = c.meter]
    IN IF amount = 0 THEN Err(s1, "InvalidAmount", t1)
    ELSE
    LET r == translate_slice(recipient_ptr, 32, 1, 1, FALSE)
        t2 == t1 \o r.maps
    IN IF ~r.ok THEN Err(s1, r.err, t2)
    ELSE
    LET recipient == HostBytes(s1.mem, r.host_addr, 32)
        p == transfer(s1.accounts, recipient, amount)
        t3 == t2 \o p.call
    IN IF ~p.ok THEN Err(s1, p.err, t3)
       ELSE Ok([s1 EXCEPT !.accounts = p.accounts], 0, t3)

\* syscalls/src/storage.rs: TosStorageRead
\* A variant of TosStorageRead without the output_len < value_len check: the
\* value is copied whatever the length of the output buffer.
TosStorageRead_unchecked_buffer(s, key_ptr, key_len, output_ptr, output_len) ==
    IF key_len > MAX_KEY_SIZE THEN Err(s, "KeyTooLarge", <<>>)
    ELSE
    LET k == translate_slice(key_ptr, key_len, 1, 1, FALSE)
        t1 == k.maps
    IN IF ~k.ok THEN Err(s, k.err, t1)
    ELSE
    LET key == HostBytes(s.mem, k.host_addr, key_len)
        value == get_storage(s.storage, key)
        t2 == t1 \o value.call
    IN IF value.some
       THEN LET value_len == Len(value.data)
                cost == saturating_add(STORAGE_READ_BASE_COST,
                            saturating_mul(value_len, STORAGE_READ_BYTE_COST))
                c == consume_checked(s.meter, cost)
                t3 == t2 \o EvCharge(cost, c)
            IN IF ~c.ok THEN Err(s, c.err, t3)
            ELSE
            LET s1 == [s EXCEPT !.meter = c.meter]
                o == translate_slice_mut(output_ptr, value_len, 1, 1, FALSE)
                t4 == t3 \o o.maps
            IN IF ~o.ok THEN Err(s1, o.err, t4)
               ELSE IF value_len = 0 THEN Ok(s1, value_len, t4)
               ELSE Ok([s1 EXCEPT !.mem = HostStore(@, o.host_addr, value.data)],
                       value_len, t4 \o EvWrite(output_ptr, value.data))
       ELSE LET c == consume_checked(s.meter, STORAGE_READ_BASE_COST)
                t3 == t2 \o EvCharge(STORAGE_READ_BASE_COST, c)
            IN IF ~c.ok THEN Err(s, c.err, t3)
               ELSE Ok([s EXCEPT !.meter = c.meter], 0, t3)

\* A variant of TosStorageRead that charges the base cost of a present key
\* first and the bytes of the value after it.
TosStorageRead_base_cost_first(s, key_ptr, key_len, output_ptr, output_len) ==
    IF key_len > MAX_KEY_SIZE THEN Err(s, "KeyTooLarge", <<>>)
    ELSE
    LET k == translate_slice(key_ptr, key_len, 1, 1, FALSE)
        t1 == k.maps
    IN IF ~k.ok THEN Err(s, k.err, t1)
    ELSE
    LET key == HostBytes(s.mem, k.host_addr, key_len)
        value == get_storage(s.storage, key)
        t2 == t1 \o value.call
    IN IF value.some
       THEN LET value_len == Len(value.data)
                cost == saturating_add(STORAGE_READ_BASE_COST,
                            saturating_mul(value_len, STORAGE_READ_BYTE_COST))
                b == consume_checked(s.meter, Min(cost, STORAGE_READ_BASE_COST))
                c == consume_checked(b.meter, cost - Min(cost, STORAGE_READ_BASE_COST))
                t3 == t2 \o EvCharge(cost, c)
            IN IF ~b.ok THEN Err(s, b.err, t3)
            ELSE IF ~c.ok THEN Err([s EXCEPT !.meter = b.meter], c.err, t3)
            ELSE
            LET s1 == [s EXCEPT !.meter = c.meter]
            IN IF output_len < value_len THEN Err(s1, "BufferTooSmall", t3)
            ELSE
            LET o == translate_slice_mut(output_ptr, value_len, 1, 1, FALSE)
                t4 == t3 \o o.maps
            IN IF ~o.ok THEN Err(s1, o.err, t4)
               ELSE IF value_len = 0 THEN Ok(s1, value_len, t4)
               ELSE Ok([s1 EXCEPT !.mem = HostStore(@, o.host_addr, value.data)],
                       value_len, t4 \o EvWrite(output_ptr, value.data))
       ELSE LET c == consume_checked(s.meter, STORAGE_READ_BASE_COST)
                t3 == t2 \o EvCharge(STORAGE_READ_BASE_COST, c)
            IN IF ~c.ok THEN Err(s, c.err, t3)
               ELSE Ok([s EXCEPT !.meter = c.meter], 0, t3)

TosStorageRead(s, key_ptr, key_len, output_ptr, output_len) ==
    IF key_len > MAX_KEY_SIZE THEN Err(s, "KeyTooLarge", <<>>)
    ELSE
    LET k == translate_slice(key_ptr, key_len, 1, 1, FALSE)
        t1 == k.maps
    IN IF ~k.ok THEN Err(s, k.err, t1)
    ELSE
    LET key == HostBytes(s.mem, k.host_addr, key_len)
        value == get_storage(s.storage, key)
        t2 == t1 \o value.call
    IN IF value.some
       THEN LET value_len == Len(value.data)
                cost == saturating_add(STORAGE_READ_BASE_COST,
                            saturating_mul(value_len, STORAGE_READ_BYTE_COST))
                c == consume_checked(s.meter, cost)
                t3 == t2 \o EvCharge(cost, c)
            IN IF ~c.ok THEN Err(s, c.err, t3)
            ELSE
            LET s1 == [s EXCEPT !.meter = c.meter]
            IN IF output_len < value_len THEN Err(s1, "BufferTooSmall", t3)
            ELSE
            LET o == translate_slice_mut(output_ptr, value_len, 1, 1, FALSE)
                t4 == t3 \o o.maps
            IN IF ~o.ok THEN Err(s1, o.err, t4)
               ELSE IF value_len = 0 THEN Ok(s1, value_len, t4)
               ELSE Ok([s1 EXCEPT !.mem = HostStore(@, o.host_addr, value.data)],
                       value_len, t4 \o EvWrite(output_ptr, value.data))
       ELSE LET c == consume_checked(s.meter, STORAGE_READ_BASE_COST)
                t3 == t2 \o EvCharge(STORAGE_READ_BASE_COST, c)
            IN IF ~c.ok THEN Err(s, c.err, t3)
               ELSE Ok([s EXCEPT !.meter = c.meter], 0, t3)

\* syscalls/src/storage.rs: TosStorageWrite
\* A variant of TosStorageWrite that refuses a key or a value of exactly the
\* largest size.
TosStorageWrite_limits_exclusive(s, key_ptr, key_len, value_ptr, value_len) ==
    IF key_len >= MAX_KEY_SIZE THEN Err(s, "KeyTooLarge", <<>>)
    ELSE IF value_len >= MAX_VALUE_SIZE THEN Err(s, "ValueTooLarge", <<>>)
    ELSE
    LET cost == saturating_add(STORAGE_WRITE_BASE_COST,
                    saturating_mul(value_len, STORAGE_WRITE_BYTE_COST))
        c == consume_checked(s.meter, cost)
        t1 == EvCharge(cost, c)
    IN IF ~c.ok THEN Err(s, c.err, t1)
    ELSE
    LET s1 == [s EXCEPT !.meter = c.meter]
        k == translate_slice(key_ptr, key_len, 1, 1, FALSE)
        t2 == t1 \o k.maps
    IN IF ~k.ok THEN Err(s1, k.err, t2)
    ELSE
    LET v == translate_slice(value_ptr, value_len, 1, 1, FALSE)
        t3 == t2 \o v.maps
    IN IF ~v.ok THEN Err(s1, v.err, t3)
    ELSE
    LET key == HostBytes(s1.mem, k.host_addr, key_len)
        value == HostBytes(s1.mem, v.host_addr, value_len)
        w == set_storage(s1.storage, key, value)
        t4 == t3 \o w.call
    IN IF ~w.ok THEN Err(s1, w.err, t4)
       ELSE Ok([s1 EXCEPT !.storage = w.storage], 0, t4)

TosStorageWrite(s, key_ptr, key_len, value_ptr, value_len) ==
    IF key_len > MAX_KEY_SIZE THEN Err(s, "KeyTooLarge", <<>>)
    ELSE IF value_len > MAX_VALUE_SIZE THEN Err(s, "ValueTooLarge", <<>>)
    ELSE
    LET cost == saturating_add(STORAGE_WRITE_BASE_COST,
                    saturating_mul(value_len, STORAGE_WRITE_BYTE_COST))
        c == consume_checked(s.meter, cost)
        t1 == EvCharge(cost, c)
    IN IF ~c.ok THEN Err(s, c.err, t1)
    ELSE
    LET s1 == [s EXCEPT !.meter = c.meter]
        k == translate_slice(key_ptr, key_len, 1, 1, FALSE)
        t2 == t1 \o k.maps
    IN IF ~k.ok THEN Err(s1, k.err, t2)
    ELSE
    LET v == translate_slice(value_ptr, value_len, 1, 1, FALSE)
        t3 == t2 \o v.maps
    IN IF ~v.ok THEN Err(s1, v.err, t3)
    ELSE
    LET key == HostBytes(s1.mem, k.host_addr, key_len)
        value == HostBytes(s1.mem, v.host_addr, value_len)
        w == set_storage(s1.storage, key, value)
        t4 == t3 \o w.call
    IN IF ~w.ok THEN Err(s1, w.err, t4)
       ELSE Ok([s1 EXCEPT !.storage = w.storage], 0, t4)

\* syscalls/src/storage.rs: TosStorageDelete
\* A variant of TosStorageDelete that reports whether the key existed under
\* any contract.
TosStorageDelete_any_contract(s, key_ptr, key_len) ==
    IF key_len > MAX_KEY_SIZE THEN Err(s, "KeyTooLarge", <<>>)
    ELSE
    LET c == consume_checked(s.meter, STORAGE_DELETE_COST)
        t1 == EvCharge(STORAGE_DELETE_COST, c)
    IN IF ~c.ok THEN Err(s, c.err, t1)
    ELSE
    LET s1 == [s EXCEPT !.meter = c.meter]
        k == translate_slice(key_ptr, key_len, 1, 1, FALSE)
        t2 == t1 \o k.maps
    IN IF ~k.ok THEN Err(s1, k.err, t2)
    ELSE
    LET key == HostBytes(s1.mem, k.host_addr, key_len)
        d == [existed |-> \E p \in DOMAIN s1.storage : p[2] = key,
              storage |-> delete_storage(s1.storage, key).storage,
              call |-> delete_storage(s1.storage, key).call]
    IN Ok([s1 EXCEPT !.storage = d.storage], IF d.existed THEN 1 ELSE 0,
          t2 \o d.call)

TosStorageDelete(s, key_ptr, key_len) ==
    IF key_len > MAX_KEY_SIZE THEN Err(s, "KeyTooLarge", <<>>)
    ELSE
    LET c == consume_checked(s.meter, STORAGE_DELETE_COST)
        t1 == EvCharge(STORAGE_DELETE_COST, c)
    IN IF ~c.ok THEN Err(s, c.err, t1)
    ELSE
    LET s1 == [s EXCEPT !.meter = c.meter]
        k == translate_slice(key_ptr, key_len, 1, 1, FALSE)
        t2 == t1 \o k.maps
    IN IF ~k.ok THEN Err(s1, k.err, t2)
    ELSE
    LET key == HostBytes(s1.mem, k.host_addr, key_len)
        d == delete_storage(s1.storage, key)
    IN Ok([s1 EXCEPT !.storage = d.storage], IF d.existed THEN 1 ELSE 0,
          t2 \o d.call)

\* syscalls/src/return_data.rs: TosSetReturnData
\* A variant of TosSetReturnData that stores the transaction sender as the
\* program id.
TosSetReturnData_sender_id(s, data_ptr, data_len) ==
    IF data_len > MAX_RETURN_DATA THEN Err(s, "ReturnDataTooLarge", <<>>)
    ELSE
    LET cost == saturating_add(RETURN_DATA_SET_BASE_COST,
                    saturating_mul(data_len, RETURN_DATA_SET_BYTE_COST))
        c == consume_checked(s.meter, cost)
        t1 == EvCharge(cost, c)
    IN IF ~c.ok THEN Err(s, c.err, t1)
    ELSE
    LET s1 == [s EXCEPT !.meter = c.meter]
        d == translate_slice(data_ptr, data_len, 1, 1, FALSE)
        t2 == t1 \o d.maps
    IN IF ~d.ok THEN Err(s1, d.err, t2)
    ELSE
    LET data == HostBytes(s1.mem, d.host_addr, data_len)
        program_id == tx_sender
        r == set_return_data(s1.return_data, program_id, data)
    IN IF ~r.ok THEN Err(s1, r.err, t2)
       ELSE Ok([s1 EXCEPT !.return_data = r.return_data], 0, t2)

TosSetReturnData(s, data_ptr, data_len) ==
    IF data_len > MAX_RETURN_DATA THEN Err(s, "ReturnDataTooLarge", <<>>)
    ELSE
    LET cost == saturating_add(RETURN_DATA_SET_BASE_COST,
                    saturating_mul(data_len, RETURN_DATA_SET_BYTE_COST))
        c == consume_checked(s.meter, cost)
        t1 == EvCharge(cost, c)
    IN IF ~c.ok THEN Err(s, c.err, t1)
    ELSE
    LET s1 == [s EXCEPT !.meter = c.meter]
        d == translate_slice(data_ptr, data_len, 1, 1, FALSE)
        t2 == t1 \o d.maps
    IN IF ~d.ok THEN Err(s1, d.err, t2)
    ELSE
    LET data == HostBytes(s1.mem, d.host_addr, data_len)
        program_id == contract_hash
        r == set_return_data(s1.return_data, program_id, data)
    IN IF ~r.ok THEN Err(s1, r.err, t2)
       ELSE Ok([s1 EXCEPT !.return_data = r.return_data], 0, t2)

\* A variant of TosGetReturnData that returns the number of bytes copied.
TosGetReturnData_copied_len(s, data_ptr, data_len, program_id_ptr) ==
    LET c == consume_checked(s.meter, RETURN_DATA_GET_COST)
        t1 == EvCharge(RETURN_DATA_GET_COST, c)
    IN IF ~c.ok THEN Err(s, c.err, t1)
    ELSE
    LET s1 == [s EXCEPT !.meter = c.meter]
        slot == get_return_data(s1.return_data)
    IN IF ~slot.some THEN Ok(s1, 0, t1)
    ELSE
    LET actual_len == Len(slot.data)
        length_to_copy == Min(data_len, actual_len)
    IN IF length_to_copy = 0 THEN Ok(s1, length_to_copy, t1)
    ELSE
    LET od == translate_slice_mut(data_ptr, length_to_copy, 1, 1, FALSE)
        t2 == t1 \o od.maps
    IN IF ~od.ok THEN Err(s1, od.err, t2)
    ELSE
    LET op == translate_slice_mut(program_id_ptr, 32, 1, 1, FALSE)
        t3 == t2 \o op.maps
    IN IF ~op.ok THEN Err(s1, op.err, t3)
    ELSE
    LET m1 == HostStore(s1.mem, od.host_addr, Take(slot.data, length_to_copy))
        m2 == HostStore(m1, op.host_addr, slot.program_id)
    IN Ok([s1 EXCEPT !.mem = m2], length_to_copy,
          t3 \o EvWrite(data_ptr, Take(slot.data, length_to_copy))
             \o EvWrite(program_id_ptr, slot.program_id))

\* syscalls/src/return_data.rs: TosGetReturnData
\* A variant of TosGetReturnData that translates both output buffers before
\* it looks at the stored return data.
TosGetReturnData_translate_first(s, data_ptr, data_len, program_id_ptr) ==
    LET c == consume_checked(s.meter, RETURN_DATA_GET_COST)
        t1 == EvCharge(RETURN_DATA_GET_COST, c)
    IN IF ~c.ok THEN Err(s, c.err, t1)
    ELSE
    LET s1 == [s EXCEPT !.meter = c.meter]
        slot == get_return_data(s1.return_data)
        length_to_copy == Min(data_len, Len(slot.data))
        od == translate_slice_mut(data_ptr, data_len, 1, 1, FALSE)
        t2 == t1 \o od.maps
    IN IF ~od.ok THEN Err(s1, od.err, t2)
    ELSE
    LET op == translate_slice_mut(program_id_ptr, 32, 1, 1, FALSE)
        t3 == t2 \o op.maps
    IN IF ~op.ok THEN Err(s1, op.err, t3)
    ELSE IF ~slot.some THEN Ok(s1, 0, t3)
    ELSE
    LET m1 == HostStore(s1.mem, od.host_addr, Take(slot.data, length_to_copy))
        m2 == HostStore(m1, op.host_addr, slot.program_id)
    IN Ok([s1 EXCEPT !.mem = m2], Len(slot.data),
          t3 \o EvWrite(data_ptr, Take(slot.data, length_to_copy))
             \o EvWrite(program_id_ptr, slot.program_id))

\* A variant of TosGetReturnData that copies the payload prefix but not the
\* program id.
TosGetReturnData_without_program_id(s, data_ptr, data_len, program_id_ptr) ==
    LET c == consume_checked(s.meter, RETURN_DATA_GET_COST)
        t1 == EvCharge(RETURN_DATA_GET_COST, c)
    IN IF ~c.ok THEN Err(s, c.err, t1)
    ELSE
    LET s1 == [s EXCEPT !.meter = c.meter]
        slot == get_return_data(s1.return_data)
    IN IF ~slot.some THEN Ok(s1, 0, t1)
    ELSE
    LET actual_len == Len(slot.data)
        length_to_copy == Min(data_len, actual_len)
    IN IF length_to_copy = 0 THEN Ok(s1, actual_len, t1)
    ELSE
    LET od == translate_slice_mut(data_ptr, length_to_copy, 1, 1, FALSE)
        t2 == t1 \o od.maps
    IN IF ~od.ok THEN Err(s1, od.err, t2)
    ELSE
    LET op == translate_slice_mut(program_id_ptr, 32, 1, 1, FALSE)
        t3 == t2 \o op.maps
    IN IF ~op.ok THEN Err(s1, op.err, t3)
    ELSE
    LET m1 == HostStore(s1.mem, od.host_addr, Take(slot.data, length_to_copy))
    IN Ok([s1 EXCEPT !.mem = m1], actual_len,
          t3 \o EvWrite(data_ptr, Take(slot.data, length_to_copy)))

\* A variant of TosGetReturnData that takes the entry out of the slot instead
\* of cloning it.
TosGetReturnData_takes(s, data_ptr, data_len, program_id_ptr) ==
    LET c == consume_checked(s.meter, RETURN_DATA_GET_COST)
        t1 == EvCharge(RETURN_DATA_GET_COST, c)
    IN IF ~c.ok THEN Err(s, c.err, t1)
    ELSE
    LET s1 == [s EXCEPT !.meter = c.meter, !.return_data = NoReturnData]
        slot == get_return_data(s.return_data)
    IN IF ~slot.some THEN Ok(s1, 0, t1)
    ELSE
    LET actual_len == Len(slot.data)
        length_to_copy == Min(data_len, actual_len)
    IN IF length_to_copy = 0 THEN Ok(s1, actual_len, t1)
    ELSE
    LET od == translate_slice_mut(data_ptr, length_to_copy, 1, 1, FALSE)
        t2 == t1 \o od.maps
    IN IF ~od.ok THEN Err(s1, od.err, t2)
    ELSE
    LET op == translate_slice_mut(program_id_ptr, 32, 1, 1, FALSE)
        t3 == t2 \o op.maps
    IN IF ~op.ok THEN Err(s1, op.err, t3)
    ELSE
    LET m1 == HostStore(s1.mem, od.host_addr, Take(slot.data, length_to_copy))
        m2 == HostStore(m1, op.host_addr, slot.program_id)
    IN Ok([s1 EXCEPT !.mem = m2], actual_len,
          t3 \o EvWrite(data_ptr, Take(slot.data, length_to_copy))
             \o EvWrite(program_id_ptr, slot.program_id))

\* A variant of TosGetReturnData that copies the payload as soon as its
\* buffer is translated, before it translates the program-id buffer.
TosGetReturnData_copies_as_it_goes(s, data_ptr, data_len, program_id_ptr) ==
    LET c == consume_checked(s.meter, RETURN_DATA_GET_COST)
        t1 == EvCharge(RETURN_DATA_GET_COST, c)
    IN IF ~c.ok THEN Err(s, c.err, t1)
    ELSE
    LET s1 == [s EXCEPT !.meter = c.meter]
        slot == get_return_data(s1.return_data)
    IN IF ~slot.some THEN Ok(s1, 0, t1)
    ELSE
    LET actual_len == Len(slot.data)
        length_to_copy == Min(data_len, actual_len)
    IN IF length_to_copy = 0 THEN Ok(s1, actual_len, t1)
    ELSE
    LET od == translate_slice_mut(data_ptr, length_to_copy, 1, 1, FALSE)
        t2 == t1 \o od.maps
    IN IF ~od.ok THEN Err(s1, od.err, t2)
    ELSE
    LET op == translate_slice_mut(program_id_ptr, 32, 1, 1, FALSE)
        t3 == t2 \o op.maps
    IN IF ~op.ok
       THEN Err([s1 EXCEPT !.mem = HostStore(@, od.host_addr,
                                             Take(slot.data, length_to_copy))],
                op.err, t2 \o EvWrite(data_ptr, Take(slot.data, length_to_copy))
                           \o op.maps)
    ELSE
    LET m1 == HostStore(s1.mem, od.host_addr, Take(slot.data, length_to_copy))
        m2 == HostStore(m1, op.host_addr, slot.program_id)
    IN Ok([s1 EXCEPT !.mem = m2], actual_len,
          t3 \o EvWrite(data_ptr, Take(slot.data, length_to_copy))
             \o EvWrite(program_id_ptr, slot.program_id))

TosGetReturnData(s, data_ptr, data_len, program_id_ptr) ==
    LET c == consume_checked(s.meter, RETURN_DATA_GET_COST)
        t1 == EvCharge(RETURN_DATA_GET_COST, c)
    IN IF ~c.ok THEN Err(s, c.err, t1)
    ELSE
    LET s1 == [s EXCEPT !.meter = c.meter]
        slot == get_return_data(s1.return_data)
    IN IF ~slot.some THEN Ok(s1, 0, t1)
    ELSE
    LET actual_len == Len(slot.data)
        length_to_copy == Min(data_len, actual_len)
    IN IF length_to_copy = 0 THEN Ok(s1, actual_len, t1)
    ELSE
    LET od == translate_slice_mut(data_ptr, length_to_copy, 1, 1, FALSE)
        t2 == t1 \o od.maps
    IN IF ~od.ok THEN Err(s1, od.err, t2)
    ELSE
    LET op == translate_slice_mut(program_id_ptr, 32, 1, 1, FALSE)
        t3 == t2 \o op.maps
    IN IF ~op.ok THEN Err(s1, op.err, t3)
    ELSE
    LET m1 == HostStore(s1.mem, od.host_addr, Take(slot.data, length_to_copy))
        m2 == HostStore(m1, op.host_addr, slot.program_id)
    IN Ok([s1 EXCEPT !.mem = m2], actual_len,
          t3 \o EvWrite(data_ptr, Take(slot.data, length_to_copy))
             \o EvWrite(program_id_ptr, slot.program_id))

(***************************************************************************)
(* The state machine: a host that owns one InvokeContext and one           *)
(* TosContext and makes calls on them, in any order, with any arguments    *)
(* drawn from the sets below.                                              *)
(***************************************************************************)
MaxCalls == 2

Budgets == {400, 12000}

INP == INPUT_VADDR
ROD == RODATA_VADDR
NOWHERE == UNMAPPED_VADDR

\* The storage port as the host hands it over: key "hi" of this contract
\* holds 9 9 9 9, key "hi" of another contract holds 8, this contract's
\* key "h" holds the empty value.
InitialStorage ==
    [p \in {<<Hash(1), <<104, 105>>>>, <<Hash(9), <<104, 105>>>>, <<Hash(1), <<104>>>>} |->
        IF p = <<Hash(1), <<104, 105>>>> THEN <<9, 9, 9, 9>>
        ELSE IF p = <<Hash(9), <<104, 105>>>> THEN <<8>>
        ELSE <<>>]

InitialAccounts == [a \in {Hash(1), Hash(7)} |-> IF a = Hash(1) THEN 100 ELSE 5]

\* The second context as new_with_state leaves it: the same world, nothing
\* called yet.
TwinNew(budget) ==
    [s |-> [meter |-> budget, mem |-> InitialInput, storage |-> InitialStorage,
            accounts |-> InitialAccounts, return_data |-> NoReturnData,
            log |-> <<>>],
     ok |-> TRUE, val |-> 0, err |-> "", log_before |-> <<>>]

Cur == [meter |-> compute_meter, mem |-> mem, storage |-> storage,
        accounts |-> accounts, return_data |-> return_data, log |-> log_output]

Init ==
    /\ compute_budget \in Budgets
    /\ compute_meter = compute_budget
    /\ contract_hash = Hash(1)
    /\ block_hash = Hash(2)
    /\ block_height = 12345
    /\ tx_hash = Hash(3)
    /\ tx_sender = Hash(4)
    /\ debug_mode = FALSE
    /\ return_data = NoReturnData
    /\ storage = InitialStorage
    /\ accounts = InitialAccounts
    /\ mem = InitialInput
    /\ log_output = <<>>
    /\ tos_context = TosContextNew(compute_budget)
    /\ last = [op |-> "new", args |-> <<>>, ok |-> TRUE, val |-> 0, err |-> "",
               trace |-> <<>>,
               pre |-> [meter |-> compute_budget, mem |-> InitialInput,
                        storage |-> InitialStorage, accounts |-> InitialAccounts,
                        return_data |-> NoReturnData, log |-> <<>>],
               tos_pre |-> TosContextNew(compute_budget)]
    /\ written = <<>>
    /\ slot_calls = <<>>
    /\ twin = TwinNew(compute_budget)
    /\ vm = NoVm
    /\ ncalls = 0

\* The bytes the guest has at vm_addr, given the input region's contents m.
GuestBytes(m, vm_addr, len) ==
    IF len = 0 THEN <<>>
    ELSE IF vm_addr >= RODATA_VADDR
         THEN SubSeq(RodataBytes, vm_addr - RODATA_VADDR + 1,
                     vm_addr - RODATA_VADDR + len)
         ELSE SubSeq(m, vm_addr - INPUT_VADDR + 1, vm_addr - INPUT_VADDR + len)

\* The call op(args) with outcome o becomes the current state; w is the
\* history of written keys after it.
ApplyW(op, args, o, w) ==
    /\ ncalls < MaxCalls
    /\ written' = w
    /\ UNCHANGED <<slot_calls, twin, vm>>
    /\ ncalls' = ncalls + 1
    /\ compute_meter' = o.s.meter
    /\ mem' = o.s.mem
    /\ storage' = o.s.storage
    /\ accounts' = o.s.accounts
    /\ return_data' = o.s.return_data
    /\ log_output' = o.s.log
    /\ last' = [op |-> op, args |-> args, ok |-> o.ok, val |-> o.val,
                err |-> o.err, trace |-> o.trace, pre |-> Cur,
                tos_pre |-> tos_context]
    /\ UNCHANGED <<ctx_fields, debug_mode, tos_context>>

Apply(op, args, o) == ApplyW(op, args, o, written)

Consume ==
    \E amount \in {0, 60, compute_meter + 1, U64_MAX} :
        Apply("consume", [amount |-> amount],
              Ok([Cur EXCEPT !.meter = consume(compute_meter, amount)], 0, <<>>))

ConsumeChecked ==
    \E amount \in {0, 60, compute_meter, compute_meter + 1, U64_MAX} :
        LET c == consume_checked(compute_meter, amount)
        IN Apply("consume_checked", [amount |-> amount],
                 IF c.ok THEN Ok([Cur EXCEPT !.meter = c.meter], 0, <<>>)
                 ELSE Err([Cur EXCEPT !.meter = c.meter], c.err, <<>>))

EnableDebug ==
    /\ ncalls = 0
    /\ ~debug_mode
    /\ debug_mode' = TRUE
    /\ UNCHANGED <<ctx_fields, compute_meter, return_data, storage, accounts, mem,
                   log_output, tos_context, last, written, slot_calls, twin, vm, ncalls>>

SetReturnData ==
    \E data \in {<<1, 2, 3, 4, 5>>, Fill(0, CTX_MAX_RETURN_DATA),
                 Fill(0, CTX_MAX_RETURN_DATA + 1)} :
        LET r == set_return_data(return_data, Hash(5), data)
        IN Apply("set_return_data", [program_id |-> Hash(5), data |-> data],
                 IF r.ok THEN Ok([Cur EXCEPT !.return_data = r.return_data], 0, <<>>)
                 ELSE Err([Cur EXCEPT !.return_data = r.return_data], r.err, <<>>))

ClearReturnData ==
    Apply("clear_return_data", <<>>,
          Ok([Cur EXCEPT !.return_data = clear_return_data(return_data)], 0, <<>>))

\* ---- the host's calls on TosContext ----
TosConsume ==
    \E amount \in {60, tos_context.remaining_compute_units + 1, U64_MAX} :
        /\ ncalls < MaxCalls
        /\ ncalls' = ncalls + 1
        /\ tos_context' = tos_consume(tos_context, amount)
        /\ last' = [op |-> "tos_consume", args |-> [amount |-> amount], ok |-> TRUE,
                    val |-> 0, err |-> "", trace |-> <<>>, pre |-> Cur,
                    tos_pre |-> tos_context]
        /\ UNCHANGED <<ctx_fields, compute_meter, debug_mode, return_data, storage,
                       accounts, mem, log_output, written, slot_calls, twin, vm>>

\* ---- the guest's syscalls ----
LogArgs == {<<INP, 2>>, <<INP, 3>>, <<INP, 0>>, <<NOWHERE, 2>>,
            <<ROD, MAX_LOG_LENGTH>>, <<ROD, MAX_LOG_LENGTH + 1>>}
SysLog ==
    \E a \in LogArgs :
        Apply("tos_log", [msg_ptr |-> a[1], msg_len |-> a[2]],
              TosLog(Cur, a[1], a[2]))

OutPtrs == {INP + 8, ROD}
SysGetBlockHash ==
    \E ptr \in OutPtrs :
        Apply("tos_get_block_hash", [output_ptr |-> ptr], TosGetBlockHash(Cur, ptr))
SysGetTxHash ==
    \E ptr \in OutPtrs :
        Apply("tos_get_tx_hash", [output_ptr |-> ptr], TosGetTxHash(Cur, ptr))
SysGetTxSender ==
    \E ptr \in OutPtrs :
        Apply("tos_get_tx_sender", [output_ptr |-> ptr], TosGetTxSender(Cur, ptr))
SysGetContractHash ==
    \E ptr \in OutPtrs :
        Apply("tos_get_contract_hash", [output_ptr |-> ptr],
              TosGetContractHash(Cur, ptr))
SysGetBlockHeight ==
    Apply("tos_get_block_height", <<>>, TosGetBlockHeight(Cur))

SysGetBalance ==
    \E ptr \in {INP + 8, NOWHERE} :
        Apply("tos_get_balance", [address_ptr |-> ptr], TosGetBalance(Cur, ptr))

TransferArgs == {<<INP + 8, 0>>, <<NOWHERE, 0>>, <<INP + 8, 5>>, <<INP + 8, 1000>>,
                 <<NOWHERE, 5>>}
SysTransfer ==
    \E a \in TransferArgs :
        Apply("tos_transfer", [recipient_ptr |-> a[1], amount |-> a[2]],
              TosTransfer(Cur, a[1], a[2]))

StorageReadArgs == {<<INP, 2, INP + 8, 8>>, <<INP, 2, INP + 8, 3>>, <<INP, 2, NOWHERE, 8>>,
                    <<INP, MAX_KEY_SIZE + 1, INP + 8, 8>>, <<NOWHERE, 2, INP + 8, 8>>,
                    <<INP, 3, INP + 8, 8>>, <<INP, 1, INP + 8, 0>>,
                    <<INP, 1, NOWHERE, 8>>, <<INP, 3, NOWHERE, 8>>}
SysStorageRead ==
    \E a \in StorageReadArgs :
        Apply("tos_storage_read",
              [key_ptr |-> a[1], key_len |-> a[2], output_ptr |-> a[3],
               output_len |-> a[4]],
              TosStorageRead(Cur, a[1], a[2], a[3], a[4]))

StorageWriteArgs == {<<INP, 2, INP + 3, 3>>, <<INP, 3, INP + 3, 2>>, <<INP, 2, INP + 3, 0>>,
                     <<INP, MAX_KEY_SIZE + 1, INP + 3, 3>>,
                     <<INP, 2, ROD, MAX_VALUE_SIZE + 1>>, <<INP, 2, NOWHERE, 3>>}
SysStorageWrite ==
    \E a \in StorageWriteArgs :
        LET o == TosStorageWrite(Cur, a[1], a[2], a[3], a[4])
            k == GuestBytes(mem, a[1], a[2])
            v == GuestBytes(mem, a[3], a[4])
        IN ApplyW("tos_storage_write",
                  [key_ptr |-> a[1], key_len |-> a[2], value_ptr |-> a[3],
                   value_len |-> a[4]],
                  o,
                  IF o.ok
                  THEN [x \in (DOMAIN written) \cup {k} |->
                            IF x = k THEN v ELSE written[x]]
                  ELSE written)

StorageDeleteArgs == {<<INP, 2>>, <<INP, 1>>, <<INP, 3>>, <<INP, MAX_KEY_SIZE + 1>>,
                      <<NOWHERE, 2>>}
SysStorageDelete ==
    \E a \in StorageDeleteArgs :
        LET o == TosStorageDelete(Cur, a[1], a[2])
            k == GuestBytes(mem, a[1], a[2])
        IN ApplyW("tos_storage_delete", [key_ptr |-> a[1], key_len |-> a[2]], o,
                  IF o.ok
                  THEN [x \in (DOMAIN written) \ {k} |-> written[x]]
                  ELSE written)

SetReturnDataArgs == {<<INP + 3, 3>>, <<INP, 0>>, <<ROD, MAX_RETURN_DATA>>,
                      <<ROD, MAX_RETURN_DATA + 1>>, <<NOWHERE, 3>>}
SysSetReturnData ==
    \E a \in SetReturnDataArgs :
        Apply("tos_set_return_data", [data_ptr |-> a[1], data_len |-> a[2]],
              TosSetReturnData(Cur, a[1], a[2]))

GetReturnDataArgs == {<<INP, 8, INP + 8>>, <<INP, 2, INP + 8>>, <<INP, 0, INP + 8>>,
                      <<NOWHERE, 2, INP + 8>>, <<INP, 2, NOWHERE>>}
SysGetReturnData ==
    \E a \in GetReturnDataArgs :
        Apply("tos_get_return_data",
              [data_ptr |-> a[1], data_len |-> a[2], program_id_ptr |-> a[3]],
              TosGetReturnData(Cur, a[1], a[2], a[3]))

Next ==
    \/ Consume
    \/ ConsumeChecked
    \/ EnableDebug
    \/ SetReturnData
    \/ ClearReturnData
    \/ TosConsume
    \/ SysLog
    \/ SysGetBlockHash
    \/ SysGetBlockHeight
    \/ SysGetTxHash
    \/ SysGetTxSender
    \/ SysGetContractHash
    \/ SysGetBalance
    \/ SysTransfer
    \/ SysStorageRead
    \/ SysStorageWrite
    \/ SysStorageDelete
    \/ SysSetReturnData
    \/ SysGetReturnData

Spec == Init /\ [][Next]_vars

(***************************************************************************)
(* Contracts sharing the ports.  An InvokeContext borrows the host's       *)
(* StorageProvider and AccountProvider for its lifetime; when it is        *)
(* dropped the host builds the next one, for the same or another contract, *)
(* over the same providers.  The new context has a full meter, no return   *)
(* data, debug off and a fresh input region.                               *)
(***************************************************************************)

NewContext ==
    \E h \in {Hash(1), Hash(9)}, b \in Budgets :
        /\ contract_hash' = h
        /\ compute_budget' = b
        /\ compute_meter' = b
        /\ debug_mode' = FALSE
        /\ return_data' = NoReturnData
        /\ mem' = InitialInput
        /\ last' = [op |-> "new", args |-> <<>>, ok |-> TRUE, val |-> 0,
                    err |-> "", trace |-> <<>>,
                    pre |-> [Cur EXCEPT !.meter = b, !.mem = InitialInput,
                                        !.return_data = NoReturnData],
                    tos_pre |-> tos_context]
        /\ written' = <<>>
        /\ UNCHANGED <<slot_calls, twin, vm>>
        /\ UNCHANGED <<block_hash, block_height, tx_hash, tx_sender, storage,
                       accounts, log_output, tos_context, ncalls>>

NextShared ==
    \/ NewContext
    \/ SysStorageRead
    \/ SysStorageWrite
    \/ SysStorageDelete

SpecShared == Init /\ [][NextShared]_vars

(***************************************************************************)
(* A guest that logs a message, writes a value and reads a value, in that  *)
(* order, under a context with debug mode on, so that each logged line is  *)
(* kept in the log output.                                                 *)
(***************************************************************************)

InitMetering ==
    /\ compute_budget \in {10000, 700}
    /\ compute_meter = compute_budget
    /\ contract_hash = Hash(1)
    /\ block_hash = Hash(2)
    /\ block_height = 12345
    /\ tx_hash = Hash(3)
    /\ tx_sender = Hash(4)
    /\ debug_mode = TRUE
    /\ return_data = NoReturnData
    /\ storage = InitialStorage
    /\ accounts = InitialAccounts
    /\ mem = InitialInput
    /\ log_output = <<>>
    /\ tos_context = TosContextNew(compute_budget)
    /\ last = [op |-> "new", args |-> <<>>, ok |-> TRUE, val |-> 0, err |-> "",
               trace |-> <<>>,
               pre |-> [meter |-> compute_budget, mem |-> InitialInput,
                        storage |-> InitialStorage, accounts |-> InitialAccounts,
                        return_data |-> NoReturnData, log |-> <<>>],
               tos_pre |-> TosContextNew(compute_budget)]
    /\ written = <<>>
    /\ slot_calls = <<>>
    /\ twin = TwinNew(compute_budget)
    /\ vm = NoVm
    /\ ncalls = 0

\* The call op(args) with outcome o becomes the current state, whatever the
\* number of calls before it; w is the history of written keys after it.
StepW(op, args, o, w) ==
    /\ written' = w
    /\ UNCHANGED <<slot_calls, twin, vm>>
    /\ ncalls' = ncalls + 1
    /\ compute_meter' = o.s.meter
    /\ mem' = o.s.mem
    /\ storage' = o.s.storage
    /\ accounts' = o.s.accounts
    /\ return_data' = o.s.return_data
    /\ log_output' = o.s.log
    /\ last' = [op |-> op, args |-> args, ok |-> o.ok, val |-> o.val,
                err |-> o.err, trace |-> o.trace, pre |-> Cur,
                tos_pre |-> tos_context]
    /\ UNCHANGED <<ctx_fields, debug_mode, tos_context>>

MeterLog ==
    /\ ncalls = 0
    /\ \E a \in {<<INP, 2>>, <<INP, 0>>, <<INP, 3>>, <<ROD, 5>>, <<ROD, 1000>>} :
          StepW("tos_log", [msg_ptr |-> a[1], msg_len |-> a[2]],
                TosLog(Cur, a[1], a[2]), written)

MeterWrite ==
    /\ ncalls = 1
    /\ \E a \in {<<INP, 2, INP + 3, 3>>, <<INP, 2, INP + 3, 0>>, <<INP, 3, INP + 3, 2>>,
                 <<INP, 2, ROD, 100>>, <<INP, 2, NOWHERE, 3>>} :
          LET o == TosStorageWrite(Cur, a[1], a[2], a[3], a[4])
              k == GuestBytes(mem, a[1], a[2])
              v == GuestBytes(mem, a[3], a[4])
          IN StepW("tos_storage_write",
                   [key_ptr |-> a[1], key_len |-> a[2], value_ptr |-> a[3],
                    value_len |-> a[4]],
                   o,
                   IF o.ok
                   THEN [x \in (DOMAIN written) \cup {k} |->
                             IF x = k THEN v ELSE written[x]]
                   ELSE written)

MeterRead ==
    /\ ncalls = 2
    /\ \E a \in {<<INP, 2, INP + 8, 8>>, <<INP, 2, INP + 8, 32>>, <<INP, 3, INP + 8, 8>>,
                 <<INP, 1, INP + 8, 8>>, <<INP, 2, INP + 8, 2>>} :
          StepW("tos_storage_read",
                [key_ptr |-> a[1], key_len |-> a[2], output_ptr |-> a[3],
                 output_len |-> a[4]],
                TosStorageRead(Cur, a[1], a[2], a[3], a[4]), written)

NextMetering ==
    \/ MeterLog
    \/ MeterWrite
    \/ MeterRead

SpecMetering == InitMetering /\ [][NextMetering]_vars

(***************************************************************************)
(* The memory translator called directly, on the mapping of a context as   *)
(* constructed: element types u8, u32 and u64, addresses inside, across    *)
(* the end of and outside the regions.  A call changes nothing but the     *)
(* record of the last call and the count of calls.                         *)
(***************************************************************************)
Types == {[size |-> 1, align |-> 1], [size |-> 4, align |-> 4],
          [size |-> 8, align |-> 8]}

TranslateAddrs == {INP, INP + 1, INP + 2, INP + 3, INP + 4, INP + InputLen - 2,
                   ROD, ROD + 1, ROD + 4, NOWHERE, NOWHERE + 1}

\* Lengths: empty, short, longer than a region, the largest u64, and a length
\* whose product with the size of a u32 exceeds u64 by 4.
TranslateLens == {0, 1, 3, 12, U64_MAX, (U64_MAX \div 4) + 2}

MaxTranslations == 1

\* What a caller holds after a translation: the outcome, and the bytes the
\* returned reference or slice denotes in the current memory m.
Referent(m, r, nbytes) ==
    [ok |-> r.ok, err |-> r.err, maps |-> r.maps,
     host_addr |-> IF r.ok THEN r.host_addr ELSE 0,
     len |-> IF r.ok THEN r.len ELSE 0,
     bytes |-> IF r.ok THEN HostBytes(m, r.host_addr, nbytes) ELSE <<>>]

Translated(op, args, r) ==
    /\ ncalls < MaxTranslations
    /\ ncalls' = ncalls + 1
    /\ last' = [op |-> op, args |-> args, ok |-> r.ok, val |-> 0, err |-> r.err,
                trace |-> r.maps, pre |-> Cur, tos_pre |-> tos_context,
                out |-> [host_addr |-> r.host_addr, len |-> r.len,
                         bytes |-> r.bytes]]
    /\ UNCHANGED <<ctx_fields, compute_meter, debug_mode, return_data, storage,
                   accounts, mem, log_output, tos_context, written, slot_calls, twin, vm>>

TranslateType ==
    \E a \in TranslateAddrs, t \in Types, c \in BOOLEAN :
        Translated("translate_type",
                   [vm_addr |-> a, size |-> t.size, align |-> t.align,
                    check_aligned |-> c],
                   Referent(mem, translate_type(a, t.size, t.align, c), t.size))

TranslateTypeMut ==
    \E a \in TranslateAddrs, t \in Types, c \in BOOLEAN :
        Translated("translate_type_mut",
                   [vm_addr |-> a, size |-> t.size, align |-> t.align,
                    check_aligned |-> c],
                   Referent(mem, translate_type_mut(a, t.size, t.align, c),
                            t.size))

TranslateSlice ==
    \E a \in TranslateAddrs, n \in TranslateLens, t \in Types, c \in BOOLEAN :
        Translated("translate_slice",
                   [vm_addr |-> a, len |-> n, size |-> t.size, align |-> t.align,
                    check_aligned |-> c],
                   Referent(mem, translate_slice(a, n, t.size, t.align, c),
                            n * t.size))

TranslateSliceMut ==
    \E a \in TranslateAddrs, n \in TranslateLens, t \in Types, c \in BOOLEAN :
        Translated("translate_slice_mut",
                   [vm_addr |-> a, len |-> n, size |-> t.size, align |-> t.align,
                    check_aligned |-> c],
                   Referent(mem, translate_slice_mut(a, n, t.size, t.align, c),
                            n * t.size))

TranslateString ==
    \E a \in TranslateAddrs, n \in TranslateLens :
        LET r == translate_string(mem, a, n)
        IN Translated("translate_string", [vm_addr |-> a, len |-> n],
                      [ok |-> r.ok, err |-> r.err, maps |-> r.maps,
                       host_addr |-> 0, len |-> Len(r.bytes),
                       bytes |-> r.bytes])

NextTranslate ==
    \/ TranslateType
    \/ TranslateTypeMut
    \/ TranslateSlice
    \/ TranslateSliceMut
    \/ TranslateString

SpecTranslate == Init /\ [][NextTranslate]_vars

(***************************************************************************)
(* The return-data slot under a host's calls: set_return_data,            *)
(* get_return_data and clear_return_data of InvokeContext, in any order.  *)
(***************************************************************************)
MaxSlotCalls == 4

\* One call on the slot: ok and err are its result, slot the slot after it,
\* out what it returned.
SlotCall(op, args, ok, err, slot, out) ==
    /\ ncalls < MaxSlotCalls
    /\ ncalls' = ncalls + 1
    /\ return_data' = slot
    /\ slot_calls' = Append(slot_calls, [op |-> op, args |-> args, ok |-> ok])
    /\ last' = [op |-> op, args |-> args, ok |-> ok, val |-> 0, err |-> err,
                trace |-> <<>>, pre |-> Cur, tos_pre |-> tos_context,
                out |-> out]
    /\ UNCHANGED <<ctx_fields, compute_meter, debug_mode, storage, accounts, mem,
                   log_output, tos_context, written, twin, vm>>

SlotSet ==
    \E program_id \in {Hash(5), Hash(6)},
       data \in {<<>>, <<1, 2, 3>>, Fill(0, CTX_MAX_RETURN_DATA),
                 Fill(0, CTX_MAX_RETURN_DATA + 1)} :
        LET r == set_return_data(return_data, program_id, data)
        IN SlotCall("set_return_data", [program_id |-> program_id, data |-> data],
                    r.ok, r.err, r.return_data, NoReturnData)

SlotGet ==
    SlotCall("get_return_data", <<>>, TRUE, "", return_data,
             get_return_data(return_data))

SlotClear ==
    SlotCall("clear_return_data", <<>>, TRUE, "", clear_return_data(return_data),
             NoReturnData)

NextReturnData ==
    \/ SlotSet
    \/ SlotGet
    \/ SlotClear

SpecReturnData == Init /\ [][NextReturnData]_vars

(***************************************************************************)
(* tos_storage_write at its size limits, with a budget that can pay for   *)
(* the largest value and one that cannot.                                 *)
(***************************************************************************)
MaxLimitCalls == 2

InitWriteLimits ==
    /\ compute_budget \in {200000, 600}
    /\ compute_meter = compute_budget
    /\ contract_hash = Hash(1)
    /\ block_hash = Hash(2)
    /\ block_height = 12345
    /\ tx_hash = Hash(3)
    /\ tx_sender = Hash(4)
    /\ debug_mode = FALSE
    /\ return_data = NoReturnData
    /\ storage = InitialStorage
    /\ accounts = InitialAccounts
    /\ mem = InitialInput
    /\ log_output = <<>>
    /\ tos_context = TosContextNew(compute_budget)
    /\ last = [op |-> "new", args |-> <<>>, ok |-> TRUE, val |-> 0, err |-> "",
               trace |-> <<>>,
               pre |-> [meter |-> compute_budget, mem |-> InitialInput,
                        storage |-> InitialStorage, accounts |-> InitialAccounts,
                        return_data |-> NoReturnData, log |-> <<>>],
               tos_pre |-> TosContextNew(compute_budget)]
    /\ written = <<>>
    /\ slot_calls = <<>>
    /\ twin = TwinNew(compute_budget)
    /\ vm = NoVm
    /\ ncalls = 0

\* The arguments are key_ptr, key_len, value_ptr, value_len: both lengths
\* at, above and below their limits, from mapped and unmapped memory.
LimitWrite ==
    /\ ncalls < MaxLimitCalls
    /\ \E a \in {<<ROD, MAX_KEY_SIZE, ROD, 3>>, <<ROD, MAX_KEY_SIZE + 1, ROD, 3>>,
                 <<INP, 2, ROD, MAX_VALUE_SIZE>>, <<INP, 2, ROD, MAX_VALUE_SIZE + 1>>,
                 <<ROD, MAX_KEY_SIZE, ROD, MAX_VALUE_SIZE>>,
                 <<ROD, MAX_KEY_SIZE + 1, ROD, MAX_VALUE_SIZE + 1>>, <<INP, 2, INP + 3, 3>>,
                 <<INP, 2, INP + 3, 0>>, <<INP, 2, NOWHERE, 3>>, <<NOWHERE, 2, INP + 3, 3>>} :
          LET o == TosStorageWrite(Cur, a[1], a[2], a[3], a[4])
              k == GuestBytes(mem, a[1], a[2])
              v == GuestBytes(mem, a[3], a[4])
          IN StepW("tos_storage_write",
                   [key_ptr |-> a[1], key_len |-> a[2], value_ptr |-> a[3],
                    value_len |-> a[4]],
                   o,
                   IF o.ok
                   THEN [x \in (DOMAIN written) \cup {k} |->
                             IF x = k THEN v ELSE written[x]]
                   ELSE written)

SpecWriteLimits == InitWriteLimits /\ [][LimitWrite]_vars

(***************************************************************************)
(* Two contexts built from the same initial state, debug_mode off in the   *)
(* first (the state variables) and on in the second (twin), receiving the  *)
(* same syscalls with the same arguments.  TosLog is the only handler that *)
(* reads debug_mode.                                                       *)
(***************************************************************************)
MaxPairCalls == 2

\* off is the outcome of the call on the first context, on its outcome on
\* the second.
PairStep(op, args, off, on) ==
    /\ ncalls < MaxPairCalls
    /\ ncalls' = ncalls + 1
    /\ compute_meter' = off.s.meter
    /\ mem' = off.s.mem
    /\ storage' = off.s.storage
    /\ accounts' = off.s.accounts
    /\ return_data' = off.s.return_data
    /\ log_output' = off.s.log
    /\ last' = [op |-> op, args |-> args, ok |-> off.ok, val |-> off.val,
                err |-> off.err, trace |-> off.trace, pre |-> Cur,
                tos_pre |-> tos_context]
    /\ twin' = [s |-> on.s, ok |-> on.ok, val |-> on.val, err |-> on.err,
                log_before |-> twin.s.log]
    /\ UNCHANGED <<ctx_fields, debug_mode, tos_context, written, slot_calls, vm>>

NextDebugPair ==
    \/ \E a \in LogArgs :
           PairStep("tos_log", [msg_ptr |-> a[1], msg_len |-> a[2]],
                    TosLogWith(FALSE, Cur, a[1], a[2]),
                    TosLogWith(TRUE, twin.s, a[1], a[2]))
    \/ \E ptr \in OutPtrs :
           PairStep("tos_get_block_hash", [output_ptr |-> ptr],
                    TosGetBlockHash(Cur, ptr), TosGetBlockHash(twin.s, ptr))
    \/ PairStep("tos_get_block_height", <<>>,
                TosGetBlockHeight(Cur), TosGetBlockHeight(twin.s))
    \/ \E ptr \in OutPtrs :
           PairStep("tos_get_tx_hash", [output_ptr |-> ptr],
                    TosGetTxHash(Cur, ptr), TosGetTxHash(twin.s, ptr))
    \/ \E ptr \in OutPtrs :
           PairStep("tos_get_tx_sender", [output_ptr |-> ptr],
                    TosGetTxSender(Cur, ptr), TosGetTxSender(twin.s, ptr))
    \/ \E ptr \in OutPtrs :
           PairStep("tos_get_contract_hash", [output_ptr |-> ptr],
                    TosGetContractHash(Cur, ptr), TosGetContractHash(twin.s, ptr))
    \/ \E ptr \in {INP + 8, NOWHERE} :
           PairStep("tos_get_balance", [address_ptr |-> ptr],
                    TosGetBalance(Cur, ptr), TosGetBalance(twin.s, ptr))
    \/ \E a \in TransferArgs :
           PairStep("tos_transfer", [recipient_ptr |-> a[1], amount |-> a[2]],
                    TosTransfer(Cur, a[1], a[2]), TosTransfer(twin.s, a[1], a[2]))
    \/ \E a \in StorageReadArgs :
           PairStep("tos_storage_read",
                    [key_ptr |-> a[1], key_len |-> a[2], output_ptr |-> a[3],
                     output_len |-> a[4]],
                    TosStorageRead(Cur, a[1], a[2], a[3], a[4]),
                    TosStorageRead(twin.s, a[1], a[2], a[3], a[4]))
    \/ \E a \in StorageWriteArgs :
           PairStep("tos_storage_write",
                    [key_ptr |-> a[1], key_len |-> a[2], value_ptr |-> a[3],
                     value_len |-> a[4]],
                    TosStorageWrite(Cur, a[1], a[2], a[3], a[4]),
                    TosStorageWrite(twin.s, a[1], a[2], a[3], a[4]))
    \/ \E a \in StorageDeleteArgs :
           PairStep("tos_storage_delete", [key_ptr |-> a[1], key_len |-> a[2]],
                    TosStorageDelete(Cur, a[1], a[2]),
                    TosStorageDelete(twin.s, a[1], a[2]))
    \/ \E a \in SetReturnDataArgs :
           PairStep("tos_set_return_data", [data_ptr |-> a[1], data_len |-> a[2]],
                    TosSetReturnData(Cur, a[1], a[2]),
                    TosSetReturnData(twin.s, a[1], a[2]))
    \/ \E a \in GetReturnDataArgs :
           PairStep("tos_get_return_data",
                    [data_ptr |-> a[1], data_len |-> a[2], program_id_ptr |-> a[3]],
                    TosGetReturnData(Cur, a[1], a[2], a[3]),
                    TosGetReturnData(twin.s, a[1], a[2], a[3]))

SpecDebugPair == Init /\ [][NextDebugPair]_vars

(***************************************************************************)
(* One invocation in which the guest issues syscalls for as long as it     *)
(* runs.  ncalls counts the syscalls that succeeded.                       *)
(***************************************************************************)
InitGuest ==
    /\ compute_budget \in {120, 520}
    /\ compute_meter = compute_budget
    /\ contract_hash = Hash(1)
    /\ block_hash = Hash(2)
    /\ block_height = 12345
    /\ tx_hash = Hash(3)
    /\ tx_sender = Hash(4)
    /\ debug_mode = FALSE
    /\ return_data = NoReturnData
    /\ storage = InitialStorage
    /\ accounts = InitialAccounts
    /\ mem = InitialInput
    /\ log_output = <<>>
    /\ tos_context = TosContextNew(compute_budget)
    /\ last = [op |-> "new", args |-> <<>>, ok |-> TRUE, val |-> 0, err |-> "",
               trace |-> <<>>,
               pre |-> [meter |-> compute_budget, mem |-> InitialInput,
                        storage |-> InitialStorage, accounts |-> InitialAccounts,
                        return_data |-> NoReturnData, log |-> <<>>],
               tos_pre |-> TosContextNew(compute_budget)]
    /\ written = <<>>
    /\ slot_calls = <<>>
    /\ twin = TwinNew(compute_budget)
    /\ vm = NoVm
    /\ ncalls = 0

GuestStep(op, args, o) ==
    /\ ncalls' = IF o.ok THEN ncalls + 1 ELSE ncalls
    /\ compute_meter' = o.s.meter
    /\ mem' = o.s.mem
    /\ storage' = o.s.storage
    /\ accounts' = o.s.accounts
    /\ return_data' = o.s.return_data
    /\ log_output' = o.s.log
    /\ last' = [op |-> op, args |-> args, ok |-> o.ok, val |-> o.val,
                err |-> o.err, trace |-> o.trace, pre |-> Cur,
                tos_pre |-> tos_context]
    /\ UNCHANGED <<ctx_fields, debug_mode, tos_context, written, slot_calls, twin, vm>>

NextGuest ==
    \/ \E a \in {<<INP, 0>>, <<INP, MAX_LOG_LENGTH + 1>>} :
           GuestStep("tos_log", [msg_ptr |-> a[1], msg_len |-> a[2]],
                     TosLog(Cur, a[1], a[2]))
    \/ GuestStep("tos_get_block_hash", [output_ptr |-> INP + 8],
                 TosGetBlockHash(Cur, INP + 8))
    \/ GuestStep("tos_get_block_height", <<>>, TosGetBlockHeight(Cur))
    \/ GuestStep("tos_get_tx_hash", [output_ptr |-> INP + 8],
                 TosGetTxHash(Cur, INP + 8))
    \/ GuestStep("tos_get_tx_sender", [output_ptr |-> INP + 8],
                 TosGetTxSender(Cur, INP + 8))
    \/ GuestStep("tos_get_contract_hash", [output_ptr |-> INP + 8],
                 TosGetContractHash(Cur, INP + 8))
    \/ GuestStep("tos_get_balance", [address_ptr |-> INP + 8],
                 TosGetBalance(Cur, INP + 8))
    \/ GuestStep("tos_transfer", [recipient_ptr |-> INP + 8, amount |-> 5],
                 TosTransfer(Cur, INP + 8, 5))
    \/ \E a \in {<<INP, 2, INP + 8, 8>>, <<INP, MAX_KEY_SIZE + 1, INP + 8, 8>>} :
           GuestStep("tos_storage_read",
                     [key_ptr |-> a[1], key_len |-> a[2], output_ptr |-> a[3],
                      output_len |-> a[4]],
                     TosStorageRead(Cur, a[1], a[2], a[3], a[4]))
    \/ \E a \in {<<INP, 2, INP + 3, 0>>} :
           GuestStep("tos_storage_write",
                     [key_ptr |-> a[1], key_len |-> a[2], value_ptr |-> a[3],
                      value_len |-> a[4]],
                     TosStorageWrite(Cur, a[1], a[2], a[3], a[4]))
    \/ GuestStep("tos_storage_delete", [key_ptr |-> INP, key_len |-> 2],
                 TosStorageDelete(Cur, INP, 2))
    \/ \E a \in {<<INP + 3, 3>>} :
           GuestStep("tos_set_return_data", [data_ptr |-> a[1], data_len |-> a[2]],
                     TosSetReturnData(Cur, a[1], a[2]))
    \/ GuestStep("tos_get_return_data",
                 [data_ptr |-> INP, data_len |-> 2, program_id_ptr |-> INP + 8],
                 TosGetReturnData(Cur, INP, 2, INP + 8))

\* The guest keeps issuing syscalls.
SpecGuest == InitGuest /\ [][NextGuest]_vars /\ WF_vars(NextGuest)

(***************************************************************************)
(* A host that builds VMs with TosVm::new and lets them consume compute.  *)
(* tos_context is the context of the VM the host holds.                   *)
(***************************************************************************)
MaxVmCalls == 6

\* The states of a VM whose execute has returned.
Finished == {"Completed", "ProgramError", "Trapped"}

\* The host calls TosVm::new and keeps the VM it gets, in place of the one
\* it held; an Err leaves it with what it had.  execute borrows the VM, so
\* the host makes no call while the engine runs.
VmNew ==
    \E elf_bytes \in {"valid", "unverifiable", "malformed"},
       budget \in {0, 1, 200000, MAX_COMPUTE_BUDGET - 1, MAX_COMPUTE_BUDGET,
                   MAX_COMPUTE_BUDGET + 1, MAX_COMPUTE_BUDGET + 2, U64_MAX} :
        LET r == TosVm_new(elf_bytes, budget)
        IN /\ ncalls < MaxVmCalls
           /\ vm.state /= "Executing"
           /\ ncalls' = ncalls + 1
           /\ tos_context' = IF r.ok THEN r.context ELSE tos_context
           /\ vm' = IF r.ok
                    THEN [state |-> "ContextBound", elf_bytes |-> elf_bytes,
                          steps |-> r.steps, runs |-> 0]
                    ELSE vm
           /\ last' = [op |-> "TosVm::new",
                       args |-> [elf_bytes |-> elf_bytes, compute_budget |-> budget],
                       ok |-> r.ok, val |-> 0, err |-> r.err, trace |-> r.steps,
                       pre |-> Cur, tos_pre |-> tos_context, vm_pre |-> vm]
           /\ UNCHANGED <<ctx_fields, compute_meter, debug_mode, return_data, storage,
                          accounts, mem, log_output, written, slot_calls, twin>>

\* TosVm::enable_debug
VmEnableDebug ==
    /\ ncalls < MaxVmCalls
    /\ vm.state \notin {"Unloaded", "Executing"}
    /\ ~tos_context.debug_mode
    /\ ncalls' = ncalls + 1
    /\ tos_context' = [tos_context EXCEPT !.debug_mode = TRUE]
    /\ last' = [op |-> "TosVm::enable_debug", args |-> <<>>, ok |-> TRUE, val |-> 0,
                err |-> "", trace |-> <<>>, pre |-> Cur, tos_pre |-> tos_context,
                vm_pre |-> vm]
    /\ UNCHANGED <<ctx_fields, compute_meter, debug_mode, return_data, storage, accounts,
                   mem, log_output, written, slot_calls, twin, vm>>

\* TosVm::execute up to its call of EbpfVm::execute_program: any held VM can
\* be executed, one that has been executed before included.
VmExecute ==
    /\ ncalls < MaxVmCalls
    /\ vm.state \notin {"Unloaded", "Executing"}
    /\ ncalls' = ncalls + 1
    /\ vm' = [vm EXCEPT !.state = "Executing", !.runs = @ + 1]
    /\ last' = [op |-> "execute_program", args |-> <<>>, ok |-> TRUE, val |-> 0,
                err |-> "", trace |-> <<>>, pre |-> Cur, tos_pre |-> tos_context,
                vm_pre |-> vm]
    /\ UNCHANGED <<ctx_fields, compute_meter, debug_mode, return_data, storage, accounts,
                   mem, log_output, tos_context, written, slot_calls, twin>>

\* The engine charges the running program through ContextObject::consume.
VmConsume ==
    \E amount \in {60, tos_context.remaining_compute_units + 1} :
        /\ ncalls < MaxVmCalls
        /\ vm.state = "Executing"
        /\ ncalls' = ncalls + 1
        /\ tos_context' = tos_consume(tos_context, amount)
        /\ last' = [op |-> "tos_consume", args |-> [amount |-> amount], ok |-> TRUE,
                    val |-> 0, err |-> "", trace |-> <<>>, pre |-> Cur,
                    tos_pre |-> tos_context, vm_pre |-> vm]
        /\ UNCHANGED <<ctx_fields, compute_meter, debug_mode, return_data, storage,
                       accounts, mem, log_output, written, slot_calls, twin, vm>>

\* EbpfVm::execute_program returns and TosVm::execute with it.
VmReturn ==
    \E engine \in {[fault |-> FALSE, result |-> 0], [fault |-> FALSE, result |-> 1],
                   [fault |-> FALSE, result |-> U64_MAX], [fault |-> TRUE, result |-> 0]} :
        LET r == TosVm_execute(engine)
        IN /\ vm.state = "Executing"
           /\ ncalls' = ncalls + 1
           /\ vm' = [vm EXCEPT !.state = r.state]
           /\ last' = [op |-> "TosVm::execute", args |-> engine, ok |-> r.ok,
                       val |-> r.val, err |-> r.err, trace |-> <<>>, pre |-> Cur,
                       tos_pre |-> tos_context, vm_pre |-> vm]
           /\ UNCHANGED <<ctx_fields, compute_meter, debug_mode, return_data, storage,
                          accounts, mem, log_output, tos_context, written, slot_calls,
                          twin>>

NextVm ==
    \/ VmNew
    \/ VmEnableDebug
    \/ VmExecute
    \/ VmConsume
    \/ VmReturn

SpecVm == Init /\ [][NextVm]_vars

(***************************************************************************)
(* Properties.                                                             *)
(***************************************************************************)
SyscallOps == {"tos_log", "tos_get_block_hash", "tos_get_block_height",
               "tos_get_tx_hash", "tos_get_tx_sender", "tos_get_contract_hash",
               "tos_get_balance", "tos_transfer", "tos_storage_read",
               "tos_storage_write", "tos_storage_delete", "tos_set_return_data",
               "tos_get_return_data"}

\* C1: consume_checked(a) with a <= remaining returns Ok and lowers remaining
\* by exactly a (to 0 when a = remaining); with a > remaining it returns an
\* error and leaves remaining as it was.
C1_ConsumeChecked ==
    last.op = "consume_checked" =>
        IF last.args.amount <= last.pre.meter
        THEN /\ last.ok
             /\ compute_meter = last.pre.meter - last.args.amount
             /\ (last.args.amount = last.pre.meter => compute_meter = 0)
        ELSE /\ ~last.ok
             /\ compute_meter = last.pre.meter

\* consume_checked of exactly what remains, after part of the budget is gone.
C1_Witness ==
    /\ last.op = "consume_checked"
    /\ last.pre.meter > 0
    /\ last.pre.meter < compute_budget
    /\ last.args.amount = last.pre.meter
    /\ last.ok
    /\ compute_meter = 0

\* C2: consume(a) never fails and leaves max(0, remaining - a), for every
\* amount up to the largest word, in InvokeContext and in TosContext alike.
C2_ConsumeSaturates ==
    /\ last.op = "consume" =>
          /\ last.ok
          /\ compute_meter =
                IF last.pre.meter - last.args.amount < 0 THEN 0
                ELSE last.pre.meter - last.args.amount
    /\ last.op = "tos_consume" =>
          /\ last.ok
          /\ tos_context.remaining_compute_units =
                IF last.tos_pre.remaining_compute_units - last.args.amount < 0 THEN 0
                ELSE last.tos_pre.remaining_compute_units - last.args.amount

\* Both meters have been driven past their end: InvokeContext's by a consume
\* of more than remained, then TosContext's likewise.
C2_Witness ==
    /\ last.op = "tos_consume"
    /\ last.tos_pre.remaining_compute_units > 0
    /\ last.args.amount > last.tos_pre.remaining_compute_units
    /\ tos_context.remaining_compute_units = 0
    /\ compute_budget > 0
    /\ compute_meter = 0

\* C3: in every reachable state 0 <= remaining <= budget, and
\* get_compute_units_consumed() is budget - remaining.
C3_MeterWithinBudget ==
    /\ 0 <= compute_meter
    /\ compute_meter <= compute_budget
    /\ get_compute_units_consumed(compute_budget, compute_meter)
          = compute_budget - compute_meter

\* Two successful syscalls have been paid for and part of the budget is left.
C3_Witness ==
    /\ ncalls = 2
    /\ last.op \in SyscallOps
    /\ last.ok
    /\ last.pre.meter < compute_budget
    /\ compute_meter < last.pre.meter
    /\ compute_meter > 0

\* C4: no step raises the remaining compute, whether the call it makes
\* succeeds or fails.
C4_NeverRefunded ==
    [][/\ compute_meter' <= compute_meter
       /\ tos_context'.remaining_compute_units <= tos_context.remaining_compute_units]_vars

\* A syscall that failed after its charge: the charge stays.
C4_Witness ==
    /\ last.op \in SyscallOps
    /\ ~last.ok
    /\ compute_meter < last.pre.meter

\* The AccountProvider.transfer calls a handler made.
TransferCalls(trace) ==
    {i \in 1..Len(trace) : trace[i].ev = "account" /\ trace[i].op = "transfer"}

\* C5: tos_transfer with amount = 0 fails with InvalidAmount and makes no
\* AccountProvider.transfer call, whatever the recipient pointer and the
\* remaining compute.
C5_ZeroAmountIsInvalidAmount ==
    (last.op = "tos_transfer" /\ last.args.amount = 0) =>
        /\ ~last.ok
        /\ last.err = "InvalidAmount"
        /\ TransferCalls(last.trace) = {}

\* C6: tos_log with msg_len above 10000 fails with MessageTooLong and leaves
\* the remaining compute as it was; msg_len = 10000 passes the length check.
C6_LogLengthBeforeCharge ==
    last.op = "tos_log" =>
        /\ last.args.msg_len > 10000 =>
              /\ ~last.ok
              /\ last.err = "MessageTooLong"
              /\ compute_meter = last.pre.meter
        /\ last.args.msg_len = 10000 => last.err /= "MessageTooLong"
        /\ (/\ last.args.msg_len = 10000
            /\ last.args.msg_ptr = RODATA_VADDR
            /\ last.pre.meter >= 10100) => last.ok

\* A message one byte too long, offered when the meter could pay for it.
C6_Witness ==
    /\ last.op = "tos_log"
    /\ last.args.msg_len = 10001
    /\ last.pre.meter >= 10101
    /\ last.pre.meter < compute_budget
    /\ last.err = "MessageTooLong"
    /\ compute_meter = last.pre.meter

\* What the guest can read and write: a range inside a mapped region, the
\* input region for writing.
GuestWritable(vm_addr, len) ==
    len = 0 \/ (/\ vm_addr >= INPUT_VADDR
                /\ vm_addr - INPUT_VADDR <= InputLen
                /\ len <= InputLen - (vm_addr - INPUT_VADDR))
GuestReadable(vm_addr, len) ==
    \/ GuestWritable(vm_addr, len)
    \/ (/\ vm_addr >= RODATA_VADDR
        /\ vm_addr - RODATA_VADDR <= RodataLen
        /\ len <= RodataLen - (vm_addr - RODATA_VADDR))

\* Byte i of the input region lies in the guest range (vm_addr, len).
InRange(i, vm_addr, len) ==
    i > vm_addr - INPUT_VADDR /\ i <= (vm_addr - INPUT_VADDR) + len

\* The key a tos_storage_read call names.
ReadHasKey ==
    /\ last.op = "tos_storage_read"
    /\ last.args.key_len <= 256
    /\ GuestReadable(last.args.key_ptr, last.args.key_len)
ReadKey == GuestBytes(last.pre.mem, last.args.key_ptr, last.args.key_len)

\* C7: after a successful tos_storage_write(k, v), with no write or delete
\* of k since, tos_storage_read(k) with output_len >= len(v) returns len(v)
\* and leaves the bytes of v in the output buffer; it does succeed when the
\* meter holds 200 + len(v) and the buffer is writable guest memory.
C7_ReadReturnsWritten ==
    (/\ ReadHasKey
     /\ ReadKey \in DOMAIN written
     /\ last.args.output_len >= Len(written[ReadKey])) =>
        LET v == written[ReadKey]
        IN /\ last.ok =>
                /\ last.val = Len(v)
                /\ GuestBytes(mem, last.args.output_ptr, Len(v)) = v
           /\ (/\ last.pre.meter >= 200 + Len(v)
               /\ GuestWritable(last.args.output_ptr, Len(v))) => last.ok

\* A read of a key whose non-empty value a write of this invocation stored.
C7_Witness ==
    /\ ReadHasKey
    /\ ReadKey \in DOMAIN written
    /\ Len(written[ReadKey]) > 0
    /\ last.args.output_len > Len(written[ReadKey])
    /\ last.ok
    /\ last.val = Len(written[ReadKey])
    /\ mem /= last.pre.mem

\* C8: tos_storage_read of a key absent from the storage port returns 0,
\* consumes exactly 200 and writes nothing to the output buffer; it does
\* succeed when the meter holds 200.
C8_AbsentKeyRead ==
    (/\ ReadHasKey
     /\ <<contract_hash, ReadKey>> \notin DOMAIN last.pre.storage) =>
        /\ mem = last.pre.mem
        /\ last.ok => (last.val = 0 /\ last.pre.meter - compute_meter = 200)
        /\ last.pre.meter >= 200 => last.ok

\* A read of an absent key, with room in the output buffer.
C8_Witness ==
    /\ ReadHasKey
    /\ <<contract_hash, ReadKey>> \notin DOMAIN last.pre.storage
    /\ last.args.output_len > 0
    /\ last.ok
    /\ last.val = 0
    /\ compute_meter = last.pre.meter - 200

\* C9: InvokeContext.set_return_data(id, d) succeeds when len(d) = 1024 and
\* fails when len(d) is above 1024, and a failed call leaves the stored
\* return data, an entry or none, as it was.
C9_ReturnDataLimit ==
    last.op = "set_return_data" =>
        /\ Len(last.args.data) = 1024 => last.ok
        /\ Len(last.args.data) <= 1024 =>
              /\ last.ok
              /\ return_data = SomeReturnData(last.args.program_id, last.args.data)
        /\ Len(last.args.data) > 1024 => ~last.ok
        /\ ~last.ok => return_data = last.pre.return_data

\* 1025 bytes refused while an earlier entry is stored.
C9_Witness ==
    /\ last.op = "set_return_data"
    /\ Len(last.args.data) = 1025
    /\ ~last.ok
    /\ last.pre.return_data.some
    /\ return_data = last.pre.return_data

StorageOps == {"tos_storage_read", "tos_storage_write", "tos_storage_delete"}

\* C11: with a port keyed by (contract_hash, key), no storage syscall of one
\* contract adds, changes or removes an entry of another contract, and a
\* read returns the caller's own entry for the key, or 0 when the caller has
\* none, whatever other contracts hold under that key.
C11_ContractsIsolated ==
    last.op \in StorageOps =>
        /\ \A p \in (DOMAIN last.pre.storage) \cup (DOMAIN storage) :
              p[1] /= contract_hash =>
                  /\ p \in DOMAIN storage
                  /\ p \in DOMAIN last.pre.storage
                  /\ storage[p] = last.pre.storage[p]
        /\ (last.op = "tos_storage_read" /\ last.ok) =>
              IF <<contract_hash, ReadKey>> \in DOMAIN last.pre.storage
              THEN LET own == last.pre.storage[<<contract_hash, ReadKey>>]
                   IN /\ last.val = Len(own)
                      /\ GuestBytes(mem, last.args.output_ptr, Len(own)) = own
              ELSE last.val = 0 /\ mem = last.pre.mem

\* Contract 9 reads key "hi" after contract 1 wrote 1 2 3 under it, and gets
\* its own one-byte value.
C11_Witness ==
    /\ last.op = "tos_storage_read"
    /\ contract_hash = Hash(9)
    /\ last.ok
    /\ last.val = 1
    /\ GuestBytes(mem, last.args.output_ptr, 1) = <<8>>
    /\ <<Hash(1), <<104, 105>>>> \in DOMAIN storage
    /\ storage[<<Hash(1), <<104, 105>>>>] = <<1, 2, 3>>

\* What the meter has given out so far.
Consumed == get_compute_units_consumed(compute_budget, compute_meter)

\* The calls made so far all succeeded: the log left its line, the write its
\* entry in the history of written keys, and the last call returned Ok.
AllSucceeded ==
    /\ last.ok
    /\ ncalls >= 1 => Len(log_output) = 1
    /\ ncalls >= 2 => DOMAIN written /= {}

\* The prices of the successful log, write and read, from what the log and
\* the write left behind and what the port held for the read.
LogPrice == 100 + Len(log_output[1].msg)
WritePrice ==
    LET k == CHOOSE x \in DOMAIN written : TRUE
    IN 500 + (2 * Len(written[k]))
ReadPrice ==
    IF <<contract_hash, ReadKey>> \in DOMAIN last.pre.storage
    THEN 200 + Len(last.pre.storage[<<contract_hash, ReadKey>>])
    ELSE 200

\* C12: over a sequence of successful syscalls consumed is the sum of the
\* calls' prices: log 100 + len, storage_write 500 + 2 * value_len,
\* storage_read 200 + value_len.  With budget 10000 a 2-byte log, a write
\* of a 3-byte value and a read of it give 102, then 608, then 811, and the
\* read returns 3 with the value in the buffer.
C12_MeteringAdditive ==
    AllSucceeded =>
        /\ ncalls = 1 => Consumed = LogPrice
        /\ ncalls = 2 => Consumed = LogPrice + WritePrice
        /\ ncalls = 3 => Consumed = LogPrice + WritePrice + ReadPrice
        /\ (/\ compute_budget = 10000
            /\ ncalls >= 1
            /\ log_output[1].msg = <<104, 105>>) =>
              /\ ncalls = 1 => Consumed = 102
              /\ (ncalls >= 2 /\ <<104, 105>> \in DOMAIN written
                  /\ written[<<104, 105>>] = <<1, 2, 3>>) =>
                    /\ ncalls = 2 => Consumed = 608
                    /\ (ncalls = 3 /\ ReadKey = <<104, 105>>
                        /\ last.args.output_len >= 3) =>
                          /\ Consumed = 811
                          /\ last.val = 3
                          /\ GuestBytes(mem, last.args.output_ptr, 3) = <<1, 2, 3>>

\* The three calls of the scenario have succeeded under budget 10000.
C12_Witness ==
    /\ compute_budget = 10000
    /\ ncalls = 3
    /\ AllSucceeded
    /\ log_output[1].msg = <<104, 105>>
    /\ written = (<<104, 105>> :> <<1, 2, 3>>)
    /\ last.op = "tos_storage_read"
    /\ last.val = 3
    /\ Consumed = 811
    /\ compute_meter = 9189

\* C13: translate_slice and translate_slice_mut with len = 0 return an empty
\* slice without a MemoryMapping.map query, for every guest address, mapped
\* or not, every element type and either value of check_aligned.
C13_EmptySliceSkipsMapping ==
    (last.op \in {"translate_slice", "translate_slice_mut"} /\ last.args.len = 0) =>
        /\ last.ok
        /\ last.out.len = 0
        /\ last.trace = <<>>

\* An empty mutable slice of u32 asked at an unmapped address, alignment
\* checked.
C13_Witness ==
    /\ last.op = "translate_slice_mut"
    /\ last.args.len = 0
    /\ last.args.vm_addr = NOWHERE + 1
    /\ last.args.size = 4
    /\ last.args.check_aligned
    /\ ~GuestReadable(last.args.vm_addr, 1)
    /\ last.ok

\* C14: translate_type::<u32> on a mapped guest address, with check_aligned,
\* fails with UnalignedPointer when the address is not divisible by 4 and
\* succeeds when it is; without check_aligned it succeeds either way.
C14_AlignmentOfGuestAddress ==
    (/\ last.op = "translate_type"
     /\ last.args.size = 4
     /\ GuestReadable(last.args.vm_addr, 4)) =>
        IF last.args.check_aligned
        THEN IF last.args.vm_addr % 4 = 0
             THEN last.ok
             ELSE ~last.ok /\ last.err = "UnalignedPointer"
        ELSE last.ok

\* C20: translate_string on mapped bytes that are not valid UTF-8 fails with
\* an encoding error, InvalidString, which is none of the errors reported
\* for misalignment, invalid length or a mapping fault, and returns no
\* string.
C20_InvalidUtf8IsInvalidString ==
    (/\ last.op = "translate_string"
     /\ last.args.len > 0
     /\ GuestReadable(last.args.vm_addr, last.args.len)
     /\ ~from_utf8_ok(GuestBytes(mem, last.args.vm_addr, last.args.len))) =>
        /\ ~last.ok
        /\ last.out.bytes = <<>>
        /\ last.err = "InvalidString"
        /\ last.err \notin {"UnalignedPointer", "InvalidLength", "AccessViolation"}

\* C15: a syscall rejected with one of the static validation errors
\* (MessageTooLong, KeyTooLarge, ValueTooLarge, ReturnDataTooLarge,
\* InvalidAmount) leaves the remaining compute units as they were before
\* the call.
ValidationErrors == {"MessageTooLong", "KeyTooLarge", "ValueTooLarge",
                     "ReturnDataTooLarge", "InvalidAmount"}

C15_ValidationBeforeCharging ==
    (last.op \in SyscallOps /\ ~last.ok /\ last.err \in ValidationErrors) =>
        compute_meter = last.pre.meter

\* C16: a syscall that fails with the out-of-compute error has made no
\* StorageProvider or AccountProvider call, translated no guest memory and
\* produced no log output: the refused charge is the only thing it did.
OutOfCompute == "ExceededMaxInstructions"

OnlyCharges(trace) == \A i \in 1..Len(trace) : trace[i].ev = "charge"

C16_ChargeBeforeTranslationAndEffect ==
    (last.op \in SyscallOps /\ ~last.ok /\ last.err = OutOfCompute) =>
        /\ OnlyCharges(last.trace)
        /\ log_output = last.pre.log
        /\ storage = last.pre.storage
        /\ accounts = last.pre.accounts
        /\ mem = last.pre.mem

\* The value the StorageProvider holds under the key a tos_storage_read call
\* names, for the calling contract.
ReadPresent == ReadHasKey /\ <<contract_hash, ReadKey>> \in DOMAIN last.pre.storage
ReadValue == last.pre.storage[<<contract_hash, ReadKey>>]

\* C17: tos_storage_read of a present key with output_len < value_len fails
\* and writes no byte of guest memory, the error being BufferTooSmall once
\* the read's price 200 + value_len is paid; with output_len >= value_len a
\* successful read returns value_len and leaves the value in the output
\* buffer, every other byte untouched, and the read does succeed when the
\* price is paid and the buffer is writable guest memory.
C17_ShortBufferRejectedElseCopied ==
    ReadPresent =>
        LET v == ReadValue
            n == Len(v)
            price == STORAGE_READ_BASE_COST + n * STORAGE_READ_BYTE_COST
        IN IF last.args.output_len < n
           THEN /\ ~last.ok
                /\ mem = last.pre.mem
                /\ \A i \in 1..Len(last.trace) : last.trace[i].ev /= "write"
                /\ last.pre.meter >= price => last.err = "BufferTooSmall"
                /\ last.pre.meter < price => last.err = OutOfCompute
           ELSE /\ last.ok =>
                     /\ last.val = n
                     /\ GuestBytes(mem, last.args.output_ptr, n) = v
                     /\ \A i \in 1..Len(mem) :
                           ~InRange(i, last.args.output_ptr, n)
                           => mem[i] = last.pre.mem[i]
                /\ (/\ last.pre.meter >= price
                    /\ GuestWritable(last.args.output_ptr, n)) => last.ok

\* A 4-byte value read into a 3-byte buffer: BufferTooSmall, memory as before.
C17_Witness ==
    /\ ReadPresent
    /\ Len(ReadValue) = 4
    /\ last.args.output_len = 3
    /\ last.err = "BufferTooSmall"
    /\ mem = last.pre.mem
    /\ compute_meter = last.pre.meter - 204

\* C18: tos_get_return_data with no return data stored translates neither
\* pointer and writes no guest memory, whatever the pointers are; with at
\* least 50 units remaining it returns 0 and consumes exactly 50, and with
\* fewer it is refused as out of compute.
C18_NoReturnDataTouchesNothing ==
    (last.op = "tos_get_return_data" /\ ~last.pre.return_data.some) =>
        /\ mem = last.pre.mem
        /\ return_data = last.pre.return_data
        /\ \A i \in 1..Len(last.trace) : last.trace[i].ev \notin {"map", "write"}
        /\ last.pre.meter >= RETURN_DATA_GET_COST =>
              /\ last.ok
              /\ last.val = 0
              /\ compute_meter = last.pre.meter - 50
        /\ last.pre.meter < RETURN_DATA_GET_COST =>
              ~last.ok /\ last.err = OutOfCompute

\* Nothing stored, a data pointer that is mapped nowhere: 0 returned, 50
\* consumed, no error.
C18_Witness ==
    /\ last.op = "tos_get_return_data"
    /\ ~last.pre.return_data.some
    /\ ~GuestWritable(last.args.data_ptr, 1)
    /\ last.args.data_len > 0
    /\ last.ok
    /\ last.val = 0
    /\ compute_meter = last.pre.meter - 50

\* A successful tos_get_return_data call with return data stored, and what
\* it was to copy.
GetStored == last.op = "tos_get_return_data" /\ last.pre.return_data.some /\ last.ok
LengthToCopy == Min(last.args.data_len, Len(last.pre.return_data.data))
ProgramIdWritten ==
    /\ GuestWritable(last.args.program_id_ptr, 32)
    /\ GuestBytes(mem, last.args.program_id_ptr, 32) = last.pre.return_data.program_id
PayloadWritten ==
    GuestBytes(mem, last.args.data_ptr, LengthToCopy)
        = Take(last.pre.return_data.data, LengthToCopy)

\* C19 as stated: whenever return data is stored, a successful
\* tos_get_return_data leaves the stored program id at program_id_ptr and
\* min(output_len, stored_len) payload bytes at data_ptr, for every
\* output_len >= 0 and every stored length >= 0.
C19_ProgramIdAlwaysWritten ==
    GetStored => ProgramIdWritten /\ PayloadWritten

\* C19, amended: when min(output_len, stored_len) > 0 a successful call
\* leaves that many payload bytes at data_ptr and the stored program id at
\* program_id_ptr and writes nothing else; when min(output_len, stored_len)
\* = 0 the call translates neither pointer and writes nothing, the program
\* id included, and still returns the stored length.
C19_ProgramIdWrittenWithPayload ==
    GetStored =>
        /\ last.val = Len(last.pre.return_data.data)
        /\ IF LengthToCopy > 0
           THEN /\ ProgramIdWritten
                /\ PayloadWritten
                /\ \A i \in 1..Len(mem) :
                      (/\ ~InRange(i, last.args.data_ptr, LengthToCopy)
                       /\ ~InRange(i, last.args.program_id_ptr, 32))
                      => mem[i] = last.pre.mem[i]
           ELSE /\ mem = last.pre.mem
                /\ \A i \in 1..Len(last.trace) :
                      last.trace[i].ev \notin {"map", "write"}

\* Two of three stored bytes asked for: both the payload prefix and the
\* program id arrive.
C19_Witness ==
    /\ GetStored
    /\ LengthToCopy = 2
    /\ Len(last.pre.return_data.data) = 3
    /\ ProgramIdWritten
    /\ GuestBytes(last.pre.mem, last.args.program_id_ptr, 32)
          /= last.pre.return_data.program_id

\* C21: translate_slice and translate_slice_mut with len > 0 whose
\* len * size_of(T) exceeds u64 fail with InvalidLength without a call of
\* MemoryMapping.map; when they succeed, the mapping was asked once, for
\* exactly len * size_of(T) bytes at the given address, and the slice has
\* exactly len elements.
SliceOps == {"translate_slice", "translate_slice_mut"}

C21_SliceLengthOverflowChecked ==
    (last.op \in SliceOps /\ last.args.len > 0) =>
        /\ last.args.len > U64_MAX \div last.args.size =>
              /\ ~last.ok
              /\ last.err = "InvalidLength"
              /\ last.trace = <<>>
        /\ last.ok =>
              /\ last.args.len <= U64_MAX \div last.args.size
              /\ Len(last.trace) = 1
              /\ last.trace[1].ev = "map"
              /\ last.trace[1].vm_addr = last.args.vm_addr
              /\ last.trace[1].len = last.args.len * last.args.size
              /\ last.out.len = last.args.len
              /\ Len(last.out.bytes) = last.args.len * last.args.size

\* A slice of u32 whose byte length wraps around u64 to 4, at a mapped
\* address: refused, the mapping not asked.
C21_Witness ==
    /\ last.op = "translate_slice"
    /\ last.args.size = 4
    /\ last.args.len = (U64_MAX \div 4) + 2
    /\ GuestReadable(last.args.vm_addr, 4)
    /\ ~last.ok
    /\ last.err = "InvalidLength"
    /\ last.trace = <<>>

\* What the history of calls on the slot says it holds: the entry of the
\* most recent successful set_return_data after the last clear_return_data,
\* none if there is no such set.
RECURSIVE MostRecentSet(_)
MostRecentSet(calls) ==
    IF calls = <<>> THEN NoReturnData
    ELSE LET c == calls[Len(calls)]
             before == SubSeq(calls, 1, Len(calls) - 1)
         IN IF c.op = "clear_return_data" THEN NoReturnData
            ELSE IF c.op = "set_return_data" /\ c.ok
                 THEN SomeReturnData(c.args.program_id, c.args.data)
                 ELSE MostRecentSet(before)

\* C22: after any sequence of set_return_data, get_return_data and
\* clear_return_data calls the slot holds the (program_id, data) of the most
\* recent successful set since the last clear, or nothing; get_return_data
\* returns exactly that and leaves the slot as it was.
C22_SlotHoldsMostRecentSet ==
    /\ return_data = MostRecentSet(slot_calls)
    /\ last.op = "get_return_data" =>
          /\ last.out = MostRecentSet(slot_calls)
          /\ return_data = last.pre.return_data

\* set, a refused set of 1025 bytes by another program, then get: the first
\* entry is returned.
C22_Witness ==
    /\ Len(slot_calls) = 3
    /\ slot_calls[1].op = "set_return_data" /\ slot_calls[1].ok
    /\ slot_calls[1].args.data = <<1, 2, 3>>
    /\ slot_calls[2].op = "set_return_data" /\ ~slot_calls[2].ok
    /\ slot_calls[2].args.program_id /= slot_calls[1].args.program_id
    /\ last.op = "get_return_data"
    /\ last.out = SomeReturnData(slot_calls[1].args.program_id, <<1, 2, 3>>)

\* C23: in every reachable state the stored return data, if any, has a
\* payload of at most 1024 bytes, whether InvokeContext.set_return_data or
\* the tos_set_return_data syscall stored it.
C23_StoredPayloadAtMost1024 ==
    return_data.some => Len(return_data.data) <= 1024

\* Exactly 1024 bytes stored through the syscall.
C23_Witness ==
    /\ last.op = "tos_set_return_data"
    /\ last.ok
    /\ return_data.some
    /\ Len(return_data.data) = 1024
    /\ return_data.data /= last.pre.return_data.data

\* The StorageProvider calls in a trace.
StorageCalls(trace) == SelectSeq(trace, LAMBDA e : e.ev = "storage")

\* C24: tos_storage_write refuses key_len > 256 with KeyTooLarge and
\* value_len > 65536 with ValueTooLarge; with key_len <= 256 and value_len <=
\* 65536, both ranges readable and 500 + 2 * value_len units remaining, it
\* succeeds; a successful write consumes exactly 500 + 2 * value_len and
\* calls StorageProvider.set exactly once, with the calling contract's hash
\* and the key and value bytes the guest pointed at.
C24_WriteLimitsPriceAndSet ==
    last.op = "tos_storage_write" =>
        LET a == last.args
            key == GuestBytes(last.pre.mem, a.key_ptr, a.key_len)
            value == GuestBytes(last.pre.mem, a.value_ptr, a.value_len)
        IN /\ a.key_len > 256 => ~last.ok /\ last.err = "KeyTooLarge"
           /\ (a.key_len <= 256 /\ a.value_len > 65536) =>
                 ~last.ok /\ last.err = "ValueTooLarge"
           /\ (/\ a.key_len <= 256 /\ a.value_len <= 65536
               /\ GuestReadable(a.key_ptr, a.key_len)
               /\ GuestReadable(a.value_ptr, a.value_len)
               /\ last.pre.meter >= 500 + (2 * a.value_len)) => last.ok
           /\ last.ok =>
                 /\ a.key_len <= 256 /\ a.value_len <= 65536
                 /\ last.val = 0
                 /\ compute_meter = last.pre.meter - (500 + (2 * a.value_len))
                 /\ StorageCalls(last.trace)
                       = <<[ev |-> "storage", op |-> "set", contract |-> contract_hash,
                            key |-> key, value |-> value]>>
                 /\ storage[<<contract_hash, key>>] = value
           /\ ~last.ok => StorageCalls(last.trace) = <<>> /\ storage = last.pre.storage

\* A 256-byte key and a 65536-byte value written: 131572 units consumed.
C24_Witness ==
    /\ last.op = "tos_storage_write"
    /\ last.args.key_len = 256
    /\ last.args.value_len = 65536
    /\ last.ok
    /\ compute_meter = last.pre.meter - 131572
    /\ Len(StorageCalls(last.trace)) = 1

\* The key a tos_storage_delete call names.
DeleteKey == GuestBytes(last.pre.mem, last.args.key_ptr, last.args.key_len)

\* A successful delete: 300 units, 1 exactly when the calling contract had
\* the key, the contract's entry gone, every other entry as it was.
DeleteEffect ==
    (last.op = "tos_storage_delete" /\ last.ok) =>
        /\ compute_meter = last.pre.meter - 300
        /\ last.val = IF <<contract_hash, DeleteKey>> \in DOMAIN last.pre.storage
                      THEN 1 ELSE 0
        /\ <<contract_hash, DeleteKey>> \notin DOMAIN storage
        /\ \A p \in DOMAIN last.pre.storage :
              p /= <<contract_hash, DeleteKey>> =>
                  p \in DOMAIN storage /\ storage[p] = last.pre.storage[p]

\* A tos_storage_read of the deleted key by the same contract, right after
\* the delete: it returns 0 and writes nothing, and it does succeed when 200
\* units remain.
ReadAfterDelete ==
    (/\ last.op = "tos_storage_delete" /\ last.ok
     /\ last'.op = "tos_storage_read"
     /\ last'.args.key_len = last.args.key_len
     /\ GuestReadable(last'.args.key_ptr, last'.args.key_len)
     /\ GuestBytes(mem, last'.args.key_ptr, last'.args.key_len) = DeleteKey) =>
        /\ last'.ok => last'.val = 0
        /\ compute_meter >= 200 => last'.ok
        /\ mem' = mem

\* C25: a successful tos_storage_delete consumes exactly 300 compute units
\* and returns 1 if the key existed under the calling contract's hash, 0
\* otherwise; a tos_storage_read of that key by the same contract that
\* follows it returns 0.
C25_DeletePriceResultAndReadBack ==
    []DeleteEffect /\ [][ReadAfterDelete]_vars

\* A key that only another contract holds is deleted: 0 returned, 300
\* consumed, the other contract's entry still there.
C25_Witness ==
    /\ last.op = "tos_storage_delete"
    /\ last.ok
    /\ last.val = 0
    /\ compute_meter = last.pre.meter - 300
    /\ \E p \in DOMAIN storage : p[1] /= contract_hash /\ p[2] = DeleteKey

\* C26: every AccountProvider.transfer call the runtime makes has the
\* executing context's contract_hash as its source, and no call lowers the
\* balance of any other account: balances change only by a successful
\* tos_transfer, out of the calling contract.
C26_TransferSourceIsContract ==
    /\ \A i \in TransferCalls(last.trace) : last.trace[i].from = contract_hash
    /\ \A a \in DOMAIN last.pre.accounts :
          a /= contract_hash =>
              a \in DOMAIN accounts /\ accounts[a] >= last.pre.accounts[a]
    /\ accounts /= last.pre.accounts => last.op = "tos_transfer" /\ last.ok

\* Five units moved to the account the guest named: the contract's balance
\* is five lower, the recipient's five higher.
C26_Witness ==
    /\ last.op = "tos_transfer"
    /\ last.ok
    /\ last.args.amount = 5
    /\ TransferCalls(last.trace) /= {}
    /\ accounts[contract_hash] = last.pre.accounts[contract_hash] - 5
    /\ \E a \in DOMAIN accounts :
          a /= contract_hash /\ accounts[a] = last.pre.accounts[a] + 5

\* The context field each 32-byte getter copies.
HashGetters == {"tos_get_block_hash", "tos_get_tx_hash", "tos_get_tx_sender",
                "tos_get_contract_hash"}
FieldOf(op) ==
    IF op = "tos_get_block_hash" THEN block_hash
    ELSE IF op = "tos_get_tx_hash" THEN tx_hash
    ELSE IF op = "tos_get_tx_sender" THEN tx_sender
    ELSE contract_hash

\* C27: tos_get_block_hash, tos_get_tx_hash, tos_get_tx_sender and
\* tos_get_contract_hash, when they succeed, consume exactly 50 units, leave
\* their context field in the 32 bytes at output_ptr, change no other byte
\* and return 0, and they succeed when 50 units remain and the 32 bytes are
\* writable; tos_get_block_height with 50 units remaining succeeds, consumes
\* exactly 50, returns block_height and writes no guest memory.
C27_BlockchainGetters ==
    /\ last.op \in HashGetters =>
          /\ last.ok =>
                /\ compute_meter = last.pre.meter - 50
                /\ last.val = 0
                /\ GuestBytes(mem, last.args.output_ptr, 32) = FieldOf(last.op)
                /\ \A i \in 1..Len(mem) :
                      ~InRange(i, last.args.output_ptr, 32) => mem[i] = last.pre.mem[i]
          /\ (last.pre.meter >= 50 /\ GuestWritable(last.args.output_ptr, 32)) => last.ok
          /\ ~last.ok => mem = last.pre.mem
    /\ last.op = "tos_get_block_height" =>
          /\ mem = last.pre.mem
          /\ \A i \in 1..Len(last.trace) : last.trace[i].ev \notin {"map", "write"}
          /\ last.pre.meter >= 50 =>
                /\ last.ok
                /\ last.val = block_height
                /\ compute_meter = last.pre.meter - 50
          /\ last.pre.meter < 50 => ~last.ok

\* The sender's 32 bytes copied into guest memory.
C27_Witness ==
    /\ last.op = "tos_get_tx_sender"
    /\ last.ok
    /\ last.val = 0
    /\ GuestBytes(mem, last.args.output_ptr, 32) = tx_sender
    /\ mem /= last.pre.mem
    /\ compute_meter = last.pre.meter - 50

\* C28: a successful tos_set_return_data(data_ptr, len) has len <= 1024,
\* consumes exactly 100 + len and replaces the slot with (contract_hash of
\* the executing context, the len bytes at data_ptr), whatever the slot
\* held; it succeeds when len <= 1024, 100 + len units remain and the bytes
\* are readable; a failed call leaves the slot as it was.
C28_SetReturnDataStoresContractHash ==
    last.op = "tos_set_return_data" =>
        LET n == last.args.data_len IN
        /\ last.ok =>
              /\ n <= 1024
              /\ last.val = 0
              /\ compute_meter = last.pre.meter - (100 + n)
              /\ return_data = SomeReturnData(contract_hash,
                                    GuestBytes(last.pre.mem, last.args.data_ptr, n))
        /\ (/\ n <= 1024 /\ last.pre.meter >= 100 + n
            /\ GuestReadable(last.args.data_ptr, n)) => last.ok
        /\ ~last.ok => return_data = last.pre.return_data

\* An entry another program id had stored is replaced by three bytes under
\* the contract's own hash.
C28_Witness ==
    /\ last.op = "tos_set_return_data"
    /\ last.ok
    /\ last.args.data_len = 3
    /\ last.pre.return_data.some
    /\ last.pre.return_data.program_id /= contract_hash
    /\ return_data.program_id = contract_hash
    /\ return_data.data = <<1, 2, 3>>
    /\ compute_meter = last.pre.meter - 103

\* C29: two contexts that start from the same state and receive the same
\* syscalls, one with debug_mode off and one with it on, agree after every
\* call on the result (success, value, error), the remaining compute, guest
\* memory, storage, accounts and return data; the first emits no log line,
\* the second emits the message of every tos_log call that succeeds and
\* nothing else.
C29_DebugModeChangesOnlyLogOutput ==
    /\ last.ok = twin.ok
    /\ last.val = twin.val
    /\ last.err = twin.err
    /\ compute_meter = twin.s.meter
    /\ mem = twin.s.mem
    /\ storage = twin.s.storage
    /\ accounts = twin.s.accounts
    /\ return_data = twin.s.return_data
    /\ log_output = <<>>
    /\ twin.s.log =
          IF last.op = "tos_log" /\ last.ok
          THEN Append(twin.log_before,
                      LogLine(GuestBytes(mem, last.args.msg_ptr, last.args.msg_len)))
          ELSE twin.log_before

\* "hi" logged twice: both contexts paid 204 units, the second alone holds
\* two lines.
C29_Witness ==
    /\ last.op = "tos_log"
    /\ last.ok
    /\ ncalls = 2
    /\ Len(twin.s.log) = 2
    /\ twin.s.log[2].msg = <<104, 105>>
    /\ log_output = <<>>
    /\ compute_meter = compute_budget - 204
    /\ twin.s.meter = compute_meter

\* C30: TosVm::new with a compute_budget above 1,400,000 fails whatever the
\* bytecode, before the loader is built, and the host is left with what it
\* had; with a budget of at most 1,400,000, the maximum included, it does
\* not fail on the budget, and with bytecode that loads and verifies it
\* returns a VM whose context has that budget.
C30_BudgetAboveMaximumRefused ==
    last.op = "TosVm::new" =>
        IF last.args.compute_budget > 1400000
        THEN /\ ~last.ok
             /\ last.err = "ExecutionError"
             /\ last.trace = <<>>
             /\ tos_context = last.tos_pre
        ELSE /\ last.err /= "ExecutionError"
             /\ last.args.elf_bytes = "valid" =>
                   /\ last.ok
                   /\ tos_context = TosContextNew(last.args.compute_budget)

\* The maximum itself, with bytecode that verifies: a VM with 1,400,000
\* units.
C30_Witness ==
    /\ last.op = "TosVm::new"
    /\ last.args.compute_budget = 1400000
    /\ last.args.elf_bytes = "valid"
    /\ last.ok
    /\ tos_context.remaining_compute_units = 1400000
    /\ tos_context /= last.tos_pre

\* C31: TosVm::execute gives exactly one of three results: Ok(0) when the
\* engine returned 0, ProgramError(r) when it returned a nonzero r, and
\* ExecutionError when the engine failed, which is never a success.
C31_ExecuteMapsEngineOutcome ==
    last.op = "TosVm::execute" =>
        /\ vm.state \in Finished
        /\ IF last.args.fault
           THEN ~last.ok /\ last.err = "ExecutionError" /\ vm.state = "Trapped"
           ELSE IF last.args.result = 0
           THEN last.ok /\ last.val = 0 /\ last.err = "" /\ vm.state = "Completed"
           ELSE /\ ~last.ok
                /\ last.err = "ProgramError"
                /\ last.val = last.args.result
                /\ vm.state = "ProgramError"

\* The program returned the largest u64: ProgramError with that code.
C31_Witness ==
    /\ last.op = "TosVm::execute"
    /\ ~last.args.fault
    /\ last.args.result = U64_MAX
    /\ last.err = "ProgramError"
    /\ last.val = U64_MAX

\* C32: a VM that is executing was built by a TosVm::new that registered
\* the syscalls, loaded the bytes and verified them, in that order, with a
\* budget of at most 1,400,000; a successful TosVm::new binds a context
\* whose remaining units are the budget, and the first execution starts
\* with them; a failed TosVm::new leaves the host with what it had, and
\* without a VM nothing starts executing.
C32_ExecutingOnlyAfterConstruction ==
    /\ [](/\ vm.state = "Executing" =>
                /\ vm.elf_bytes = "valid"
                /\ vm.steps = <<"register_syscalls", "from_elf", "verify",
                                "TosContext::new">>
                /\ tos_context.compute_budget <= 1400000
          /\ last.op = "TosVm::new" =>
                IF last.ok
                THEN /\ vm.state = "ContextBound"
                     /\ tos_context.compute_budget = last.args.compute_budget
                     /\ tos_context.remaining_compute_units = last.args.compute_budget
                ELSE vm = last.vm_pre /\ tos_context = last.tos_pre
          /\ (last.op = "execute_program" /\ vm.runs = 1) =>
                tos_context.remaining_compute_units = tos_context.compute_budget)
    /\ [][vm.state = "Unloaded" => vm'.state \in {"Unloaded", "ContextBound"}]_vars

\* A VM with the largest budget there is has started to execute.
C32_Witness ==
    /\ vm.state = "Executing"
    /\ vm.runs = 1
    /\ tos_context.remaining_compute_units = 1400000

C33_SyscallFrame ==
    [][(last'.op \in SyscallOps \cup {"consume", "consume_checked"}
            /\ ncalls' = ncalls + 1) =>
         /\ UNCHANGED ctx_fields
         /\ storage' /= storage =>
               last'.op \in {"tos_storage_write", "tos_storage_delete"}
         /\ accounts' /= accounts => last'.op = "tos_transfer"
         /\ return_data' /= return_data => last'.op = "tos_set_return_data"]_vars

\* A successful tos_get_return_data of a stored entry: the entry is still
\* in the slot, and storage and the balances are as before.
C33_Witness ==
    /\ last.op = "tos_get_return_data"
    /\ last.ok
    /\ last.val > 0
    /\ return_data.some
    /\ return_data = last.pre.return_data
    /\ storage = last.pre.storage
    /\ accounts = last.pre.accounts

\* C34: a syscall that fails after its charge was taken (on a guest-memory
\* translation fault, invalid UTF-8 in tos_log, BufferTooSmall in
\* tos_storage_read, a provider's error, or any other failure that follows
\* the charge) has consumed exactly the call's full price, and has left the
\* storage contents, the balances and the return-data slot as they were.
C34_FailureAfterChargeNotRefunded ==
    (/\ last.op \in SyscallOps
     /\ ~last.ok
     /\ \E i \in 1..Len(last.trace) :
           last.trace[i].ev = "charge" /\ last.trace[i].ok) =>
        LET price ==
              CASE last.op = "tos_log" -> 100 + last.args.msg_len
                [] last.op \in HashGetters \cup {"tos_get_block_height"} -> 50
                [] last.op = "tos_get_balance" -> 100
                [] last.op = "tos_transfer" -> 500
                [] last.op = "tos_storage_read" -> 200 + Len(ReadValue)
                [] last.op = "tos_storage_write" -> 500 + 2 * last.args.value_len
                [] last.op = "tos_storage_delete" -> 300
                [] last.op = "tos_set_return_data" -> 100 + last.args.data_len
                [] last.op = "tos_get_return_data" -> 50
        IN /\ last.err \notin ValidationErrors \ {"InvalidAmount"}
           /\ last.err /= OutOfCompute
           /\ last.pre.meter >= price
           /\ compute_meter = last.pre.meter - price
           /\ storage = last.pre.storage
           /\ accounts = last.pre.accounts
           /\ return_data = last.pre.return_data

\* A tos_log of three bytes that are not UTF-8: InvalidString, 103 units
\* consumed.
C34_Witness ==
    /\ last.op = "tos_log"
    /\ last.err = "InvalidString"
    /\ last.args.msg_len = 3
    /\ compute_meter = last.pre.meter - 103

\* C35: translate_type with check_aligned decides on the guest address
\* before it asks the mapping: for a guest address that is misaligned for T
\* and mapped nowhere it fails with UnalignedPointer and the mapping is not
\* queried.
C35_AlignmentBeforeMapping ==
    (/\ last.op \in {"translate_type", "translate_type_mut"}
     /\ last.args.check_aligned
     /\ last.args.vm_addr % last.args.align /= 0
     /\ ~GuestReadable(last.args.vm_addr, last.args.size)) =>
        /\ ~last.ok
        /\ last.err = "UnalignedPointer"
        /\ last.trace = <<>>

\* C37: tos_storage_read of a present key with fewer than 200 + value_len
\* units remaining fails as out of compute, consumes nothing, the base cost
\* of 200 included, and writes no byte of guest memory.
C37_UnaffordableReadChargesNothing ==
    (ReadPresent /\ last.pre.meter < 200 + Len(ReadValue)) =>
        /\ ~last.ok
        /\ last.err = OutOfCompute
        /\ compute_meter = last.pre.meter
        /\ mem = last.pre.mem
        /\ \A i \in 1..Len(last.trace) : last.trace[i].ev /= "write"

\* 200 units remain and the value has 4 bytes: refused, 200 still there.
C37_Witness ==
    /\ ReadPresent
    /\ Len(ReadValue) = 4
    /\ last.pre.meter = 200
    /\ last.err = OutOfCompute
    /\ compute_meter = 200

\* C38: tos_get_return_data writes both of its outputs or neither: a call
\* that fails, a failed translation of either buffer included, has written
\* no byte of guest memory, and the payload and the program id are written
\* only after both buffers have been translated.
C38_ReturnDataOutputsAtomic ==
    last.op = "tos_get_return_data" =>
        /\ ~last.ok =>
              /\ mem = last.pre.mem
              /\ \A i \in 1..Len(last.trace) : last.trace[i].ev /= "write"
        /\ \A i, j \in 1..Len(last.trace) :
              (last.trace[i].ev = "write" /\ last.trace[j].ev = "map") => j < i
        /\ (\E i \in 1..Len(last.trace) : last.trace[i].ev = "write") =>
              /\ last.ok
              /\ Len(SelectSeq(last.trace, LAMBDA e : e.ev = "map")) = 2
              /\ Len(SelectSeq(last.trace, LAMBDA e : e.ev = "write")) = 2
              /\ GuestWritable(last.args.data_ptr, LengthToCopy)
              /\ GuestWritable(last.args.program_id_ptr, 32)

\* Return data is stored, the data buffer is writable and the program-id
\* pointer is mapped nowhere: the call fails and the data buffer is as it
\* was.
C38_Witness ==
    /\ last.op = "tos_get_return_data"
    /\ last.pre.return_data.some
    /\ LengthToCopy > 0
    /\ GuestWritable(last.args.data_ptr, LengthToCopy)
    /\ ~GuestWritable(last.args.program_id_ptr, 32)
    /\ GuestBytes(last.pre.mem, last.args.data_ptr, LengthToCopy)
          /= Take(last.pre.return_data.data, LengthToCopy)
    /\ ~last.ok
    /\ mem = last.pre.mem

\* C39 as stated: a syscall that succeeds takes at least 50 units, so at
\* most floor(budget / 50) succeed, with fewer than 50 units left every
\* syscall fails, and every guest that keeps issuing syscalls gets below 50
\* units.
C39_GuestRunsBelow50 ==
    /\ [][last'.ok => compute_meter' + 50 <= compute_meter]_vars
    /\ [](ncalls * 50 <= compute_budget - compute_meter
           /\ ncalls <= compute_budget \div 50)
    /\ [][compute_meter < 50 => ~last'.ok]_vars
    /\ <>(compute_meter < 50)

\* C39: a syscall that succeeds takes at least 50 units, so at most
\* floor(budget / 50) succeed in an invocation, and with fewer than 50
\* units left every syscall fails; a guest that keeps issuing syscalls
\* gets below 50 units or has a syscall fail.
C39_SuccessesBounded ==
    /\ [][last'.ok => compute_meter' + 50 <= compute_meter]_vars
    /\ [](ncalls * 50 <= compute_budget - compute_meter
           /\ ncalls <= compute_budget \div 50)
    /\ [][compute_meter < 50 => ~last'.ok]_vars
    /\ <>(compute_meter < 50 \/ ~last.ok)

\* Ten syscalls have succeeded on a budget of 520, and 20 units are left.
C39_Witness ==
    /\ compute_budget = 520
    /\ ncalls = 10
    /\ compute_meter = 20
    /\ last.ok

\* C40: tos_storage_read of a key that is absent and of a key stored with
\* an empty value have the same outcome, which depends on nothing but the
\* units that remain: with 200 or more the call returns 0, consumes exactly
\* 200 and writes no byte, whatever the output pointer and length are, and
\* with fewer it is refused as out of compute and consumes nothing.
C40_AbsentAndEmptyAlike ==
    (ReadHasKey /\ (ReadPresent => ReadValue = <<>>)) =>
        /\ mem = last.pre.mem
        /\ storage = last.pre.storage
        /\ \A i \in 1..Len(last.trace) :
              /\ last.trace[i].ev /= "write"
              /\ last.trace[i].ev = "map" => last.trace[i].access = "Load"
        /\ IF last.pre.meter >= 200
           THEN last.ok /\ last.val = 0 /\ compute_meter = last.pre.meter - 200
           ELSE /\ ~last.ok
                /\ last.err = OutOfCompute
                /\ compute_meter = last.pre.meter

\* A key stored with an empty value, read into an 8-byte buffer that is
\* mapped nowhere: 0 returned, 200 consumed.
C40_Witness ==
    /\ ReadPresent
    /\ ReadValue = <<>>
    /\ last.args.output_len = 8
    /\ ~GuestWritable(last.args.output_ptr, 8)
    /\ last.ok
    /\ last.val = 0
    /\ compute_meter = last.pre.meter - 200

====
